---- MODULE Spec2Model ----
(***************************************************************************)
(* The per-account chain orchestrator of hyperevo/py-evm                   *)
(* (src/evm/chains/base.py, class Chain), with the collaborators it calls  *)
(* (the VM / Executor, the chain database, the receivable index kept in    *)
(* the account database) modelled as far as the orchestrator uses them.    *)
(*                                                                         *)
(* Every operation of Chain is a pure operator on a "world" record         *)
(*   [header, queue_block, blocks, head, receivable]                       *)
(* that returns [w |-> the world afterwards, result |-> the exception      *)
(* raised or "ok", at |-> the statement that raised, ret |-> the value     *)
(* returned].  The actions apply these operators to the variables.         *)
(***************************************************************************)
EXTENDS Integers, Sequences, FiniteSets, TLC

VARIABLES
    header,        \* Chain.header of the chain object of each address
    queue_block,   \* Chain.queue_block of the chain object of each address
    blocks,        \* the blocks persisted in the shared database
    head,          \* canonical head hash recorded per address
    receivable,    \* pending-receive keys per address (account database)
    last,          \* the last call made: operation, chain, outcome
    forkTable,     \* vm_configuration under test (fork-table specification)
    forkQuery,     \* timestamp last passed to get_vm_class_for_block_timestamp
    forkResult,    \* what that call returned or raised
    pc,            \* per thread: the statement of its call it is to run next
    call,          \* per thread: the call it makes in the current round
    local,         \* per thread: the block held in a local variable
    base           \* the world when the current round of calls began

chainVars == <<header, queue_block, blocks, head, receivable, last>>
forkVars == <<forkTable, forkQuery, forkResult>>
threadVars == <<pc, call, local, base>>
vars == <<header, queue_block, blocks, head, receivable, last,
          forkTable, forkQuery, forkResult, pc, call, local, base>>

----------------------------------------------------------------------------
(* Bounds of the model *)

MaxBlocks == 2      \* blocks persisted per chain
MaxTime == 3        \* block timestamps range over 0..MaxTime, the wall clock
                    \* over HELIOS_TESTNET_TIMESTAMP..MaxTime
MaxQueue == 2       \* transactions staged per list of a queue block
MaxNonce == 2       \* nonces of send transactions range over 0..MaxNonce-1
MaxForks == 2       \* entries of a fork table under test
MaxXferBlocks == 3  \* blocks persisted on both chains together, two-chain runs
MaxGas == 12        \* gas limits of stored parents range up to MaxGas
MaxChainId == 2     \* chain ids a signature may name range over 0..MaxChainId
BloomBits == 2      \* bits of a bloom value: blooms range over 0..2^BloomBits-1
MaxPhotonTxs == 2   \* transactions per list of a block given to the Photon VM

(* Program constants, scaled *)

HELIOS_TESTNET_TIMESTAMP == 1
MIN_TIME_BETWEEN_BLOCKS == 2
GENESIS_GAS_LIMIT == 8
GAS_LIMIT_ADJUSTMENT_FACTOR == 4
GAS_LIMIT_MINIMUM == 5
MAINNET_NETWORK_ID == 1
SECPK1_N == 7
UINT_256_MAX == 63
EIP155_CHAIN_ID_OFFSET == 35

Addr == {"W", "R"}
Threads == {"T1", "T2"}
Times == 0..MaxTime
Clock == HELIOS_TESTNET_TIMESTAMP..MaxTime
GasLimits == {GENESIS_GAS_LIMIT, GENESIS_GAS_LIMIT + 3}

ZERO_HASH32 == <<"zero">>
NoHead == <<"nohead">>
None == [kind |-> "none"]
False == <<"False">>
NoCall == [op |-> "none", tx |-> None, t |-> 0]

MAINNET_VM_CONFIGURATION ==
    << [start |-> HELIOS_TESTNET_TIMESTAMP, vm |-> "HeliosTestnetVM"] >>

----------------------------------------------------------------------------
(* Values: transactions, keys, blocks, hashes *)

Range(s) == {s[i] : i \in DOMAIN s}

Max(a, b) == IF a > b THEN a ELSE b

SendTx(s, t, n) == [type |-> "send", sender |-> s, to |-> t, nonce |-> n]

TxHash(tx) == <<"tx", tx.sender, tx.to, tx.nonce>>

\* the network id configured for the chain class
network_id == MAINNET_NETWORK_ID

\* VM.create_receive_transaction with v = 0: not signed yet
create_receive_transaction(sbh, tx) ==
    [type |-> "receive", sender_block_hash |-> sbh, transaction |-> tx,
     receiver |-> "nobody", v |-> 0]

\* get_signed(private_key, chain_id): the signer is recovered as receiver,
\* v carries the chain id
get_signed(rtx, key, cid) == [rtx EXCEPT !.receiver = key, !.v = 35 + 2 * cid]

\* a receive transaction signed by r for this network
ReceiveTx(sbh, tx, r) == get_signed(create_receive_transaction(sbh, tx), r, network_id)

TransactionKey(th, sbh) == [transaction_hash |-> th, sender_block_hash |-> sbh]

KeyOf(rtx) == TransactionKey(TxHash(rtx.transaction), rtx.sender_block_hash)

HashOf(b) ==
    <<"blk", b.kind, b.chain, b.number, b.parent_hash, b.timestamp,
      b.gas_limit, b.gas_used, b.transactions, b.receive_transactions>>

is_genesis(b) == b.number = 0

is_queue_block(b) == b.kind = "queue"

Ret(w, result, at, ret) == [w |-> w, result |-> result, at |-> at, ret |-> ret]

----------------------------------------------------------------------------
(* Fork table *)

validate_uint256(t) == t >= 0 /\ t <= UINT_256_MAX

RECURSIVE ScanReversed(_, _, _)
ScanReversed(cfg, i, t) ==
    IF i = 0 THEN "VMNotFound"
    ELSE IF t >= cfg[i].start THEN cfg[i].vm
    ELSE ScanReversed(cfg, i - 1, t)

\* the table scanned from its first entry
RECURSIVE ScanForward(_, _, _)
ScanForward(cfg, i, t) ==
    IF i > Len(cfg) THEN "VMNotFound"
    ELSE IF t >= cfg[i].start THEN cfg[i].vm
    ELSE ScanForward(cfg, i + 1, t)

get_vm_class_for_block_timestamp_forward(cfg, t) ==
    IF ~validate_uint256(t) THEN "ValidationError"
    ELSE ScanForward(cfg, 1, t)

\* Chain.get_vm_class_for_block_timestamp, for a timestamp given
get_vm_class_for_block_timestamp(cfg, t) ==
    IF ~validate_uint256(t) THEN "ValidationError"
    ELSE ScanReversed(cfg, Len(cfg), t)

----------------------------------------------------------------------------
(* Chain database: lookups by hash, the canonical head, the reverse index  *)
(* from transaction hash to (block hash, index)                            *)

HasHeader(w, h) == \E b \in w.blocks : HashOf(b) = h

get_block_header_by_hash(w, h) == CHOOSE b \in w.blocks : HashOf(b) = h

ChainBlocks(w, c) == {b \in w.blocks : b.chain = c}

\* the account nonce: the send transactions committed on c's chain so far
AccountNonce(w, c) ==
    Cardinality({<<b, i>> \in ChainBlocks(w, c) \X (1..MaxQueue) :
                    i \in DOMAIN b.transactions})

HasTransaction(w, th) ==
    \E b \in w.blocks : \E i \in DOMAIN b.transactions :
        TxHash(b.transactions[i]) = th

get_transaction_index(w, th) ==
    CHOOSE p \in {<<b, i>> \in w.blocks \X (1..MaxQueue) :
                    i \in DOMAIN b.transactions} :
        TxHash(p[1].transactions[p[2]]) = th

\* the index of the transaction ignored: the first transaction of its block
get_canonical_transaction_first(w, th) ==
    get_transaction_index(w, th)[1].transactions[1]

\* Chain.get_canonical_transaction
get_canonical_transaction(w, th) ==
    LET p == get_transaction_index(w, th) IN p[1].transactions[p[2]]

----------------------------------------------------------------------------
(* The VM of a header: header construction, the tip block, the time check, *)
(* execution of a block                                                    *)

create_genesis_header(c, t) ==
    [chain |-> c, number |-> 0, parent_hash |-> ZERO_HASH32, timestamp |-> t,
     gas_limit |-> GENESIS_GAS_LIMIT, gas_used |-> 0]

vm_create_header_from_parent(parent, t) ==
    [chain |-> parent.chain, number |-> parent.number + 1,
     parent_hash |-> HashOf(parent), timestamp |-> t,
     gas_limit |-> parent.gas_limit, gas_used |-> 0]

\* VM(header).block for the tip header: the queue block built on it
vm_block(h) ==
    [kind |-> "queue", chain |-> h.chain, number |-> h.number,
     parent_hash |-> h.parent_hash, timestamp |-> h.timestamp,
     gas_limit |-> h.gas_limit, gas_used |-> h.gas_used,
     transactions |-> <<>>, receive_transactions |-> <<>>]

check_time_since_parent_block(w, b) ==
    b.timestamp - get_block_header_by_hash(w, b.parent_hash).timestamp
        >= MIN_TIME_BETWEEN_BLOCKS

NoDuplicates(s) == \A i, j \in DOMAIN s : s[i] = s[j] => i = j

\* Receivable index: listPending and consumePending ("ok" or the error)
list_pending(w, a) == Range(w.receivable[a])

consume_pending(w, a, key) ==
    IF key \in list_pending(w, a) THEN "ok" ELSE "NoSuchPending"

\* the Executor accepts the block's transactions: each receive transaction
\* is signed by the chain's owner, settles a send addressed to the owner and
\* consumes its pending key, which no earlier transaction of the block did
ReceivesApply(w, c, b) ==
    /\ NoDuplicates(b.receive_transactions)
    /\ \A i \in DOMAIN b.receive_transactions :
          LET rtx == b.receive_transactions[i] IN
            /\ rtx.receiver = c
            /\ rtx.transaction.to = c
            /\ consume_pending(w, c, KeyOf(rtx)) = "ok"

SendsApply(w, c, b) ==
    \A i \in DOMAIN b.transactions :
        /\ b.transactions[i].sender = c
        /\ b.transactions[i].nonce = AccountNonce(w, c) + i - 1

vm_apply_all_transactions(w, c, b) == ReceivesApply(w, c, b) /\ SendsApply(w, c, b)

\* the block the Executor returns: signed, with the header fields it fills in
vm_import_block(b) ==
    [b EXCEPT !.kind = "block",
              !.gas_used = Len(b.transactions) + Len(b.receive_transactions)]

\* the receivable index after the block's transactions took effect: the keys
\* the block's receive transactions settle are removed from c's list, and one
\* key per send transaction is appended to its destination's list
SeqMinus(s, removed) ==
    LET Keep(k) == k \notin removed IN SelectSeq(s, Keep)

AppendNew(s, added) ==
    LET Fresh(k) == k \notin Range(s) IN s \o SelectSeq(added, Fresh)

SendKeysFor(ib, a) ==
    LET To(tx) == tx.to = a
        sends == SelectSeq(ib.transactions, To)
    IN [i \in 1..Len(sends) |-> TransactionKey(TxHash(sends[i]), HashOf(ib))]

ReceivableAfter(w, c, ib) ==
    [a \in Addr |->
        AppendNew(
            IF a = c
              THEN SeqMinus(w.receivable[a],
                            {KeyOf(ib.receive_transactions[i]) :
                                i \in DOMAIN ib.receive_transactions})
              ELSE w.receivable[a],
            SendKeysFor(ib, a))]

persist_block(w, c, ib) ==
    [w EXCEPT !.blocks = @ \cup {ib},
              !.head[c] = HashOf(ib),
              !.receivable = ReceivableAfter(w, c, ib)]

ensure_imported_block_unchanged(imported, b) == imported = b

compute_gas_limit_bounds(parent) ==
    LET boundary_range == parent.gas_limit \div GAS_LIMIT_ADJUSTMENT_FACTOR IN
    [low |-> Max(GAS_LIMIT_MINIMUM, parent.gas_limit - boundary_range),
     high |-> parent.gas_limit + boundary_range]

----------------------------------------------------------------------------
(* Chain (src/evm/chains/base.py)                                          *)

vm_configuration == MAINNET_VM_CONFIGURATION

VMFound(t) ==
    get_vm_class_for_block_timestamp(vm_configuration, t)
        \notin {"VMNotFound", "ValidationError"}

\* Chain.create_header_from_parent: the VM class is the one active now
create_header_from_parent(parent, t) == vm_create_header_from_parent(parent, t)

get_canonical_head(w, c) == get_block_header_by_hash(w, w.head[c])

\* Chain.get_block: the block of the VM of the tip header
get_block(w, c) == vm_block(w.header[c])

\* the stored head ignored: every new Chain object starts at a genesis header
Chain_init_genesisAlways(w, c, t) ==
    IF ~VMFound(t) THEN Ret(w, "VMNotFound", "init", None)
    ELSE
      LET w1 == [w EXCEPT !.header[c] = create_genesis_header(c, t)]
      IN Ret([w1 EXCEPT !.queue_block[c] = get_block(w1, c)], "ok", "init", None)

\* the queue block not made: the new Chain object has none
Chain_init_noQueueBlock(w, c, t) ==
    IF ~VMFound(t) THEN Ret(w, "VMNotFound", "init", None)
    ELSE
      LET h == IF w.head[c] = NoHead
                 THEN create_genesis_header(c, t)
                 ELSE create_header_from_parent(get_canonical_head(w, c), t)
      IN Ret([w EXCEPT !.header[c] = h, !.queue_block[c] = None],
             "ok", "init", None)

\* Chain.__init__
Chain_init(w, c, t) ==
    IF ~VMFound(t) THEN Ret(w, "VMNotFound", "init", None)
    ELSE
      LET h == IF w.head[c] = NoHead
                 THEN create_genesis_header(c, t)
                 ELSE create_header_from_parent(get_canonical_head(w, c), t)
          w1 == [w EXCEPT !.header[c] = h]
      IN Ret([w1 EXCEPT !.queue_block[c] = get_block(w1, c)], "ok", "init", None)

\* the bounds themselves rejected
validate_gaslimit_strict(w, hd) ==
    IF ~HasHeader(w, hd.parent_hash) THEN "HeaderNotFound"
    ELSE LET bounds == compute_gas_limit_bounds(
                           get_block_header_by_hash(w, hd.parent_hash))
         IN IF hd.gas_limit <= bounds.low THEN "ValidationError"
            ELSE IF hd.gas_limit >= bounds.high THEN "ValidationError"
            ELSE "ok"

\* Chain.validate_gaslimit: "ok" or the exception raised
validate_gaslimit(w, hd) ==
    IF ~HasHeader(w, hd.parent_hash) THEN "HeaderNotFound"
    ELSE LET bounds == compute_gas_limit_bounds(
                           get_block_header_by_hash(w, hd.parent_hash))
         IN IF hd.gas_limit < bounds.low THEN "ValidationError"
            ELSE IF hd.gas_limit > bounds.high THEN "ValidationError"
            ELSE "ok"

\* Chain.validate_block
validate_block(w, b) == validate_gaslimit(w, b)

\* the time check left out
TimeCheck_skipped(w, b) == "ok"

\* import_block, lines 650-652: the time check; "ok" or the exception raised
TimeCheck(w, b) ==
    IF is_genesis(b) THEN "ok"
    ELSE IF ~check_time_since_parent_block(w, b) THEN "NotEnoughTimeBetweenBlocks"
    ELSE "ok"

\* the number check accepting any number from the tip's on
NumberCheck_atLeast(w, c, b) == b.number >= w.header[c].number

\* the number check asking for a number above the tip's
NumberCheck_aboveTip(w, c, b) == b.number > w.header[c].number

\* the number check left out
NumberCheck_skipped(w, c, b) == TRUE

\* import_block, line 654
NumberCheck(w, c, b) == b.number = w.header[c].number

\* no block validated
PerformValidation_never(b, perform_validation) == FALSE

\* every block validated when the caller asks for it, queue blocks too
PerformValidation_asAsked(b, perform_validation) == perform_validation

\* import_block, lines 666-671: is the imported block validated?
PerformValidation(b, perform_validation) ==
    IF is_queue_block(b) THEN FALSE ELSE perform_validation

\* the tip header not recomputed after persisting
PersistAndAdvance_staleTip(w, c, imported, t) ==
    LET w1 == persist_block(w, c, imported) IN
    Ret([w1 EXCEPT !.queue_block[c] = None], "ok", "ok", imported)

\* the queue block kept after the import
PersistAndAdvance_keepQueue(w, c, imported, t) ==
    LET w1 == persist_block(w, c, imported) IN
    Ret([w1 EXCEPT !.header[c] =
                      create_header_from_parent(get_canonical_head(w1, c), t)],
        "ok", "ok", imported)

\* import_block, lines 675-677: persist, recompute the tip, clear the queue block
PersistAndAdvance(w, c, imported, t) ==
    LET w1 == persist_block(w, c, imported) IN
    IF ~VMFound(t) THEN Ret(w1, "VMNotFound", "advance", None)
    ELSE Ret([w1 EXCEPT
                !.header[c] = create_header_from_parent(get_canonical_head(w1, c), t),
                !.queue_block[c] = None],
             "ok", "ok", imported)

\* the block persisted before it is validated
import_block_persistFirst(w, c, b, perform_validation, t) ==
    IF TimeCheck(w, b) # "ok" THEN Ret(w, TimeCheck(w, b), "time", None)
    ELSE IF ~NumberCheck(w, c, b) THEN Ret(w, "ValidationError", "number", None)
    ELSE IF ~VMFound(b.timestamp) THEN Ret(w, "VMNotFound", "vm", None)
    ELSE IF ~vm_apply_all_transactions(w, c, b)
        THEN Ret(w, "ExecutionError", "execute", None)
    ELSE
      LET imported == vm_import_block(b)
          w1 == persist_block(w, c, imported)
      IN
      IF PerformValidation(b, perform_validation)
            /\ ~ensure_imported_block_unchanged(imported, b)
          THEN Ret(w1, "ValidationError", "unchanged", None)
      ELSE IF PerformValidation(b, perform_validation)
            /\ validate_block(w, imported) # "ok"
          THEN Ret(w1, validate_block(w, imported), "validate", None)
      ELSE PersistAndAdvance(w, c, imported, t)

\* the Executor's exception swallowed: the block is persisted all the same
import_block_ignoreExecution(w, c, b, perform_validation, t) ==
    IF TimeCheck(w, b) # "ok" THEN Ret(w, TimeCheck(w, b), "time", None)
    ELSE IF ~NumberCheck(w, c, b) THEN Ret(w, "ValidationError", "number", None)
    ELSE IF ~VMFound(b.timestamp) THEN Ret(w, "VMNotFound", "vm", None)
    ELSE
      LET imported == vm_import_block(b) IN
      IF PerformValidation(b, perform_validation)
            /\ ~ensure_imported_block_unchanged(imported, b)
          THEN Ret(w, "ValidationError", "unchanged", None)
      ELSE IF PerformValidation(b, perform_validation)
            /\ validate_block(w, imported) # "ok"
          THEN Ret(w, validate_block(w, imported), "validate", None)
      ELSE PersistAndAdvance(w, c, imported, t)

\* the block given is persisted, not the block the Executor returned
import_block_persistInput(w, c, b, perform_validation, t) ==
    IF TimeCheck(w, b) # "ok" THEN Ret(w, TimeCheck(w, b), "time", None)
    ELSE IF ~NumberCheck(w, c, b) THEN Ret(w, "ValidationError", "number", None)
    ELSE IF ~VMFound(b.timestamp) THEN Ret(w, "VMNotFound", "vm", None)
    ELSE IF ~vm_apply_all_transactions(w, c, b)
        THEN Ret(w, "ExecutionError", "execute", None)
    ELSE
      LET imported == vm_import_block(b) IN
      IF PerformValidation(b, perform_validation)
            /\ ~ensure_imported_block_unchanged(imported, b)
          THEN Ret(w, "ValidationError", "unchanged", None)
      ELSE IF PerformValidation(b, perform_validation)
            /\ validate_block(w, imported) # "ok"
          THEN Ret(w, validate_block(w, imported), "validate", None)
      ELSE [PersistAndAdvance(w, c, b, t) EXCEPT !.ret = imported]

\* the number check made before the time check
import_block_numberFirst(w, c, b, perform_validation, t) ==
    IF ~NumberCheck(w, c, b) THEN Ret(w, "ValidationError", "number", None)
    ELSE IF TimeCheck(w, b) # "ok" THEN Ret(w, TimeCheck(w, b), "time", None)
    ELSE IF ~VMFound(b.timestamp) THEN Ret(w, "VMNotFound", "vm", None)
    ELSE IF ~vm_apply_all_transactions(w, c, b)
        THEN Ret(w, "ExecutionError", "execute", None)
    ELSE
      LET imported == vm_import_block(b) IN
      IF PerformValidation(b, perform_validation)
            /\ ~ensure_imported_block_unchanged(imported, b)
          THEN Ret(w, "ValidationError", "unchanged", None)
      ELSE IF PerformValidation(b, perform_validation)
            /\ validate_block(w, imported) # "ok"
          THEN Ret(w, validate_block(w, imported), "validate", None)
      ELSE PersistAndAdvance(w, c, imported, t)

\* Chain.import_block
import_block(w, c, b, perform_validation, t) ==
    IF TimeCheck(w, b) # "ok" THEN Ret(w, TimeCheck(w, b), "time", None)
    ELSE IF ~NumberCheck(w, c, b) THEN Ret(w, "ValidationError", "number", None)
    ELSE IF ~VMFound(b.timestamp) THEN Ret(w, "VMNotFound", "vm", None)
    ELSE IF ~vm_apply_all_transactions(w, c, b)
        THEN Ret(w, "ExecutionError", "execute", None)
    ELSE
      LET imported == vm_import_block(b) IN
      IF PerformValidation(b, perform_validation)
            /\ ~ensure_imported_block_unchanged(imported, b)
          THEN Ret(w, "ValidationError", "unchanged", None)
      ELSE IF PerformValidation(b, perform_validation)
            /\ validate_block(w, imported) # "ok"
          THEN Ret(w, validate_block(w, imported), "validate", None)
      ELSE PersistAndAdvance(w, c, imported, t)

\* an absent queue block replaced by an empty block on the tip header
import_current_queue_block_freshBlock(w, c, t) ==
    IF w.queue_block[c] = None THEN import_block(w, c, get_block(w, c), TRUE, t)
    ELSE import_block(w, c, w.queue_block[c], TRUE, t)

\* Chain.import_current_queue_block
import_current_queue_block(w, c, t) ==
    IF w.queue_block[c] = None THEN Ret(w, "AttributeError", "none", None)
    ELSE import_block(w, c, w.queue_block[c], TRUE, t)

\* BaseQueueBlock.contains_transaction / contains_receive_transaction
contains_transaction(q, tx) ==
    \E i \in DOMAIN q.transactions : TxHash(q.transactions[i]) = TxHash(tx)

contains_receive_transaction(q, rtx) == rtx \in Range(q.receive_transactions)

\* the transaction appended without looking for it in the queue block
add_transaction_to_queue_block_noLookup(w, c, tx) ==
    LET w1 == IF w.queue_block[c] = None
                THEN [w EXCEPT !.queue_block[c] = get_block(w, c)]
                ELSE w
        q == w1.queue_block[c]
    IN IF ~is_queue_block(q) THEN Ret(w1, "ValidationError", "is_queue_block", None)
       ELSE IF tx.type = "send"
         THEN Ret([w1 EXCEPT !.queue_block[c].transactions = Append(@, tx)],
                  "ok", "added", None)
         ELSE Ret([w1 EXCEPT !.queue_block[c].receive_transactions = Append(@, tx)],
                  "ok", "added", None)

\* a receive transaction appended without looking for it in the queue block
add_transaction_to_queue_block_receiveNoLookup(w, c, tx) ==
    LET w1 == IF w.queue_block[c] = None
                THEN [w EXCEPT !.queue_block[c] = get_block(w, c)]
                ELSE w
        q == w1.queue_block[c]
    IN IF ~is_queue_block(q) THEN Ret(w1, "ValidationError", "is_queue_block", None)
       ELSE IF tx.type = "send"
         THEN IF ~contains_transaction(q, tx)
                THEN Ret([w1 EXCEPT !.queue_block[c].transactions = Append(@, tx)],
                         "ok", "added", None)
                ELSE Ret(w1, "ok", "duplicate", None)
         ELSE Ret([w1 EXCEPT !.queue_block[c].receive_transactions = Append(@, tx)],
                  "ok", "added", None)

\* the kind of the queue block not examined
add_transaction_to_queue_block_noCheck(w, c, tx) ==
    LET w1 == IF w.queue_block[c] = None
                THEN [w EXCEPT !.queue_block[c] = get_block(w, c)]
                ELSE w
        q == w1.queue_block[c]
    IN IF tx.type = "send"
         THEN IF ~contains_transaction(q, tx)
                THEN Ret([w1 EXCEPT !.queue_block[c].transactions = Append(@, tx)],
                         "ok", "added", None)
                ELSE Ret(w1, "ok", "duplicate", None)
         ELSE IF ~contains_receive_transaction(q, tx)
                THEN Ret([w1 EXCEPT !.queue_block[c].receive_transactions
                                        = Append(@, tx)],
                         "ok", "added", None)
                ELSE Ret(w1, "ok", "duplicate", None)

\* Chain.add_transaction_to_queue_block
add_transaction_to_queue_block(w, c, tx) ==
    LET w1 == IF w.queue_block[c] = None
                THEN [w EXCEPT !.queue_block[c] = get_block(w, c)]
                ELSE w
        q == w1.queue_block[c]
    IN IF ~is_queue_block(q) THEN Ret(w1, "ValidationError", "is_queue_block", None)
       ELSE IF tx.type = "send"
         THEN IF ~contains_transaction(q, tx)
                THEN Ret([w1 EXCEPT !.queue_block[c].transactions = Append(@, tx)],
                         "ok", "added", None)
                ELSE Ret(w1, "ok", "duplicate", None)
         ELSE IF ~contains_receive_transaction(q, tx)
                THEN Ret([w1 EXCEPT !.queue_block[c].receive_transactions
                                        = Append(@, tx)],
                         "ok", "added", None)
                ELSE Ret(w1, "ok", "duplicate", None)

\* Chain.add_transactions_to_queue_block, for a list
RECURSIVE add_transactions_to_queue_block(_, _, _)
add_transactions_to_queue_block(w, c, txs) ==
    IF txs = <<>> THEN Ret(w, "ok", "added", None)
    ELSE LET r == add_transaction_to_queue_block(w, c, Head(txs)) IN
         IF r.result # "ok" THEN r
         ELSE add_transactions_to_queue_block(r.w, c, Tail(txs))

\* the case of no key left out: the two lists are returned, empty or not
get_receivable_transactions_noEmptyCase(w, a) ==
    LET tx_keys == w.receivable[a] IN
    IF \E i \in DOMAIN tx_keys : ~HasTransaction(w, tx_keys[i].transaction_hash)
      THEN Ret(w, "TransactionNotFound", "lookup", None)
    ELSE Ret(w, "ok", IF Len(tx_keys) = 0 THEN "empty" ELSE "found",
             << [i \in DOMAIN tx_keys |->
                    get_canonical_transaction(w, tx_keys[i].transaction_hash)],
                tx_keys >>)

\* Chain.get_receivable_transactions: ret is <<transactions, tx_keys>>
get_receivable_transactions(w, a) ==
    LET tx_keys == w.receivable[a] IN
    IF Len(tx_keys) = 0 THEN Ret(w, "ok", "empty", <<False, False>>)
    ELSE IF \E i \in DOMAIN tx_keys : ~HasTransaction(w, tx_keys[i].transaction_hash)
      THEN Ret(w, "TransactionNotFound", "lookup", None)
    ELSE Ret(w, "ok", "found",
             << [i \in DOMAIN tx_keys |->
                    get_canonical_transaction(w, tx_keys[i].transaction_hash)],
                tx_keys >>)

Reverse(q) == [i \in DOMAIN q |-> q[Len(q) + 1 - i]]

\* the receive transactions returned in the reverse of the key order
create_receivable_signed_transactions_reversed(w, c) ==
    LET r == get_receivable_transactions(w, c) IN
    IF r.result # "ok" THEN r
    ELSE IF r.at = "empty" THEN Ret(w, "ok", "empty", <<>>)
    ELSE Ret(w, "ok", "found",
             Reverse([i \in DOMAIN r.ret[1] |->
                 ReceiveTx(r.ret[2][i].sender_block_hash, r.ret[1][i], c)]))

\* Chain.create_receivable_signed_transactions: ret is the list of receive
\* transactions, signed by the chain's key
create_receivable_signed_transactions(w, c) ==
    LET r == get_receivable_transactions(w, c) IN
    IF r.result # "ok" THEN r
    ELSE IF r.at = "empty" THEN Ret(w, "ok", "empty", <<>>)
    ELSE Ret(w, "ok", "found",
             [i \in DOMAIN r.ret[1] |->
                 get_signed(
                     create_receive_transaction(r.ret[2][i].sender_block_hash,
                                                r.ret[1][i]),
                     c, network_id)])

\* the receive transactions built and returned, but not staged
populate_queue_block_with_receive_tx_notStaged(w, c) ==
    create_receivable_signed_transactions(w, c)

\* Chain.populate_queue_block_with_receive_tx
populate_queue_block_with_receive_tx(w, c) ==
    LET r == create_receivable_signed_transactions(w, c) IN
    IF r.result # "ok" THEN r
    ELSE LET a == add_transactions_to_queue_block(w, c, r.ret) IN
         IF a.result # "ok" THEN a ELSE Ret(a.w, "ok", r.at, r.ret)

----------------------------------------------------------------------------
(* The state machine                                                       *)

World ==
    [header |-> header, queue_block |-> queue_block, blocks |-> blocks,
     head |-> head, receivable |-> receivable]

EmptyWorld ==
    [header |-> [c \in Addr |-> create_genesis_header(c, HELIOS_TESTNET_TIMESTAMP)],
     queue_block |-> [c \in Addr |-> None],
     blocks |-> {},
     head |-> [c \in Addr |-> NoHead],
     receivable |-> [c \in Addr |-> <<>>]]

RECURSIVE InitChains(_, _, _)
InitChains(w, cs, t) ==
    IF cs = {} THEN w
    ELSE LET c == CHOOSE x \in cs : TRUE IN
         InitChains(Chain_init(w, c, t).w, cs \ {c}, t)

Call(op, c, r) == [op |-> op, chain |-> c, result |-> r.result, at |-> r.at]

Apply(op, c, r) ==
    /\ header' = r.w.header
    /\ queue_block' = r.w.queue_block
    /\ blocks' = r.w.blocks
    /\ head' = r.w.head
    /\ receivable' = r.w.receivable
    /\ last' = Call(op, c, r)
    /\ UNCHANGED <<forkVars, threadVars>>

(* Inputs *)

OwnSends(c) == {SendTx(c, to, n) : to \in Addr \ {c}, n \in 0..(MaxNonce - 1)}

\* receive transactions signed by c for the send transactions committed so far
KnownReceives(w, c) ==
    {ReceiveTx(HashOf(p[1]), p[1].transactions[p[2]], c) :
        p \in {<<b, i>> \in w.blocks \X (1..MaxQueue) : i \in DOMAIN b.transactions}}

\* the transaction lists of a block received from elsewhere
Contents(w, c) ==
    {<< <<tx>>, <<>> >> : tx \in OwnSends(c)}
      \cup {<< <<>>, r >> : r \in {<<>>} \cup {<<rtx>> : rtx \in KnownReceives(w, c)}}

\* the headers offered for import are well formed: block 0 has the null
\* parent hash, every other block names a header stored for the chain
Parents(w, c, n) ==
    IF n = 0 THEN {ZERO_HASH32} ELSE {HashOf(b) : b \in ChainBlocks(w, c)}

ExternalBlocks(w, c) ==
    UNION {
      {[kind |-> k, chain |-> c, number |-> n, parent_hash |-> p, timestamp |-> ts,
        gas_limit |-> gl, gas_used |-> gu,
        transactions |-> x[1], receive_transactions |-> x[2]] :
          k \in {"block", "queue"}, p \in Parents(w, c, n),
          ts \in Times, gl \in GasLimits, gu \in 0..1, x \in Contents(w, c)} :
      n \in 0..MaxBlocks}

\* every block import_block may be called with: the chain's own queue block too
ImportInputs(w, c) ==
    ExternalBlocks(w, c)
      \cup (IF w.queue_block[c] = None THEN {} ELSE {w.queue_block[c]})

CanImport(c) == Cardinality(ChainBlocks(World, c)) < MaxBlocks

Room(c, list) ==
    IF queue_block[c] = None THEN TRUE ELSE Len(queue_block[c][list]) < MaxQueue

\* the wall clock is read only by an import that gets as far as persisting,
\* and perform_validation only for a block that is not a queue block
ClockFor(r) == IF r.result = "ok" THEN Clock ELSE {HELIOS_TESTNET_TIMESTAMP}

FlagsFor(b) == IF is_queue_block(b) THEN {TRUE} ELSE BOOLEAN

(* Actions *)

Init ==
    LET w == InitChains(EmptyWorld, Addr, HELIOS_TESTNET_TIMESTAMP) IN
    /\ header = w.header
    /\ queue_block = w.queue_block
    /\ blocks = w.blocks
    /\ head = w.head
    /\ receivable = w.receivable
    /\ last = [op |-> "init", chain |-> "W", result |-> "ok", at |-> "init"]
    /\ forkTable = vm_configuration
    /\ forkQuery = 0
    /\ forkResult = "none"
    /\ pc = [th \in Threads |-> "idle"]
    /\ call = [th \in Threads |-> NoCall]
    /\ local = [th \in Threads |-> None]
    /\ base = w

NewChain(c) ==
    \E t \in Clock : Apply("init", c, Chain_init(World, c, t))

AddSend(c) ==
    \E tx \in OwnSends(c) :
        /\ IF Room(c, "transactions") THEN TRUE
              ELSE contains_transaction(queue_block[c], tx)
        /\ Apply("add", c, add_transaction_to_queue_block(World, c, tx))

Populate(c) ==
    /\ Len(receivable[c]) <= MaxQueue
    /\ Apply("populate", c, populate_queue_block_with_receive_tx(World, c))

ImportQueueBlock(c) ==
    /\ CanImport(c)
    /\ \E t \in ClockFor(import_current_queue_block(World, c, HELIOS_TESTNET_TIMESTAMP)) :
          Apply("import_queue", c, import_current_queue_block(World, c, t))

ImportBlock(c) ==
    /\ CanImport(c)
    /\ \E b \in ExternalBlocks(World, c) : \E pv \in FlagsFor(b) :
          \E t \in ClockFor(import_block(World, c, b, pv, HELIOS_TESTNET_TIMESTAMP)) :
              Apply("import", c, import_block(World, c, b, pv, t))

\* one chain, fed its own queue block and blocks received from elsewhere
Next ==
    \/ NewChain("W")
    \/ AddSend("W")
    \/ ImportQueueBlock("W")
    \/ ImportBlock("W")

Spec == Init /\ [][Next]_vars

----------------------------------------------------------------------------
(* Two chains: W sends, R receives                                         *)

RECURSIVE SeqsUpTo(_, _)
SeqsUpTo(S, n) ==
    IF n = 0 THEN {<<>>}
    ELSE LET shorter == SeqsUpTo(S, n - 1) IN
         shorter \cup {Append(q, x) : q \in shorter, x \in S}

\* blocks of receive transactions a peer built on the chain's tip
ReceiveBlocks(w, c) ==
    {[vm_import_block(vm_block(w.header[c])) EXCEPT
          !.timestamp = ts, !.receive_transactions = r, !.gas_used = Len(r)] :
        ts \in Times, r \in SeqsUpTo(KnownReceives(w, c), MaxQueue) \ {<<>>}}

ImportReceiveBlock(c) ==
    /\ CanImport(c)
    /\ Cardinality(blocks) < MaxXferBlocks
    /\ \E b \in ReceiveBlocks(World, c) : \E pv \in BOOLEAN :
          \E t \in ClockFor(import_block(World, c, b, pv, HELIOS_TESTNET_TIMESTAMP)) :
              Apply("import", c, import_block(World, c, b, pv, t))

XferImportQueueBlock(c) ==
    /\ Cardinality(blocks) < MaxXferBlocks
    /\ ImportQueueBlock(c)

NextXfer ==
    \/ AddSend("W")
    \/ XferImportQueueBlock("W")
    \/ Populate("R")
    \/ XferImportQueueBlock("R")
    \/ ImportReceiveBlock("R")

SpecXfer == Init /\ [][NextXfer]_vars

\* every block import_block is called with in the two-chain specification
XferInputs(w, c) ==
    ReceiveBlocks(w, c)
      \cup (IF w.queue_block[c] = None THEN {} ELSE {w.queue_block[c]})

----------------------------------------------------------------------------
(* The fork table on its own: tables in ascending order of activation      *)
(* timestamp, queried with timestamps                                      *)

VMClasses == {"FrontierVM", "HeliosTestnetVM"}

ForkEntries == [start : Times, vm : VMClasses]

Ascending(cfg) == \A i, j \in DOMAIN cfg : i < j => cfg[i].start < cfg[j].start

ForkTables == {cfg \in SeqsUpTo(ForkEntries, MaxForks) : Ascending(cfg)}

\* the timestamps of a query: some below, some above every activation
QueryTimes == (0 - 1)..(MaxTime + 1)

InitFork ==
    LET w == InitChains(EmptyWorld, Addr, HELIOS_TESTNET_TIMESTAMP) IN
    /\ header = w.header
    /\ queue_block = w.queue_block
    /\ blocks = w.blocks
    /\ head = w.head
    /\ receivable = w.receivable
    /\ last = [op |-> "init", chain |-> "W", result |-> "ok", at |-> "init"]
    /\ forkTable \in ForkTables
    /\ forkQuery = 0
    /\ forkResult = "none"
    /\ pc = [th \in Threads |-> "idle"]
    /\ call = [th \in Threads |-> NoCall]
    /\ local = [th \in Threads |-> None]
    /\ base = w

\* get_vm_class_for_block_timestamp(timestamp)
Resolve ==
    \E t \in QueryTimes :
        /\ forkQuery' = t
        /\ forkResult' = get_vm_class_for_block_timestamp(forkTable, t)
        /\ UNCHANGED <<forkTable, chainVars, threadVars>>

\* get_vm_class_for_block_timestamp(): the timestamp is the wall clock's
ResolveNow ==
    \E now \in Clock :
        /\ forkQuery' = now
        /\ forkResult' = get_vm_class_for_block_timestamp(forkTable, now)
        /\ UNCHANGED <<forkTable, chainVars, threadVars>>

NextFork == Resolve \/ ResolveNow

SpecFork == InitFork /\ [][NextFork]_vars

Eligible(cfg, t) == {i \in DOMAIN cfg : cfg[i].start <= t}

\* C8: for an ascending fork table and a timestamp t >= 0 the lookup
\* returns the VM class of the entry with the greatest activation timestamp
\* <= t, and raises VMNotFound when t is below every activation timestamp
\* (an empty table included).
C8_GreatestActivationNotAfter ==
    /\ \A t \in QueryTimes :
          t >= 0 =>
            LET r == get_vm_class_for_block_timestamp(forkTable, t) IN
            IF Eligible(forkTable, t) = {} THEN r = "VMNotFound"
            ELSE \E i \in Eligible(forkTable, t) :
                   /\ \A j \in Eligible(forkTable, t) :
                         forkTable[j].start <= forkTable[i].start
                   /\ r = forkTable[i].vm
    /\ forkResult = "VMNotFound" => Eligible(forkTable, forkQuery) = {}

\* a table of two entries, both active at the timestamp queried: the later
\* entry's VM class was returned
C8_Witness ==
    /\ Len(forkTable) = 2
    /\ forkTable[1].vm # forkTable[2].vm
    /\ forkQuery >= forkTable[2].start
    /\ forkResult = forkTable[2].vm

----------------------------------------------------------------------------
(* Two threads calling one Chain object.  The methods take no lock, so a   *)
(* thread can be preempted between the statements of a call; each action   *)
(* below is one statement (or a run of statements that reads or writes the *)
(* object's fields once).  Calls are made in rounds: in a round each       *)
(* thread makes at most one call, and base is the world the round began in *)

Busy(th) == pc[th] \notin {"idle", "done"}

ThreadStep(th, label, loc) ==
    /\ pc' = [pc EXCEPT ![th] = label]
    /\ local' = [local EXCEPT ![th] = loc]

\* add_transaction_to_queue_block, lines 477-480: the queue block created if
\* there is none, and validated
AddBegin(th) ==
    /\ pc[th] = "idle"
    /\ \E tx \in OwnSends("W") :
          /\ call' = [call EXCEPT ![th] = [op |-> "add", tx |-> tx, t |-> 0]]
          /\ queue_block' = IF queue_block["W"] = None
                               THEN [queue_block EXCEPT !["W"] = get_block(World, "W")]
                               ELSE queue_block
    /\ ThreadStep(th, "add_read", None)
    /\ UNCHANGED <<header, blocks, head, receivable, last, forkVars, base>>

\* lines 483-485, right-hand side: self.queue_block is read, searched, and
\* the block with the transaction added is built
AddRead(th) ==
    /\ pc[th] = "add_read"
    /\ IF queue_block["W"] = None
         THEN ThreadStep(th, "done", None)
         ELSE IF contains_transaction(queue_block["W"], call[th].tx)
           THEN ThreadStep(th, "done", None)
           ELSE ThreadStep(th, "add_write",
                           [queue_block["W"] EXCEPT
                               !.transactions = Append(@, call[th].tx)])
    /\ UNCHANGED <<chainVars, forkVars, call, base>>

\* line 485, the assignment to self.queue_block
AddWrite(th) ==
    /\ pc[th] = "add_write"
    /\ queue_block' = [queue_block EXCEPT !["W"] = local[th]]
    /\ ThreadStep(th, "done", None)
    /\ UNCHANGED <<header, blocks, head, receivable, last, forkVars, call, base>>

\* import_current_queue_block and import_block, lines 650-673: the queue
\* block is read, checked against the tip and executed
ImportBegin(th) ==
    /\ pc[th] = "idle"
    /\ CanImport("W")
    /\ \E t \in Clock :
          /\ call' = [call EXCEPT ![th] = [op |-> "import", tx |-> None, t |-> t]]
          /\ IF import_current_queue_block(World, "W", t).result = "ok"
               THEN ThreadStep(th, "import_persist",
                               vm_import_block(queue_block["W"]))
               ELSE ThreadStep(th, "done", None)
    /\ UNCHANGED <<chainVars, forkVars, base>>

\* line 675
ImportPersist(th) ==
    /\ pc[th] = "import_persist"
    /\ LET w1 == persist_block(World, "W", local[th]) IN
         /\ blocks' = w1.blocks
         /\ head' = w1.head
         /\ receivable' = w1.receivable
    /\ ThreadStep(th, "import_header", None)
    /\ UNCHANGED <<header, queue_block, last, forkVars, call, base>>

\* line 676
ImportHeader(th) ==
    /\ pc[th] = "import_header"
    /\ header' = [header EXCEPT !["W"] =
                      create_header_from_parent(get_canonical_head(World, "W"),
                                                call[th].t)]
    /\ ThreadStep(th, "import_clear", None)
    /\ UNCHANGED <<queue_block, blocks, head, receivable, last, forkVars, call, base>>

\* line 677
ImportClear(th) ==
    /\ pc[th] = "import_clear"
    /\ queue_block' = [queue_block EXCEPT !["W"] = None]
    /\ ThreadStep(th, "done", None)
    /\ UNCHANGED <<header, blocks, head, receivable, last, forkVars, call, base>>

Quiet == \A th \in Threads : ~Busy(th)

\* every call of the round has returned: the next round begins
NextRound ==
    /\ Quiet
    /\ \E th \in Threads : pc[th] = "done"
    /\ pc' = [th \in Threads |-> "idle"]
    /\ call' = [th \in Threads |-> NoCall]
    /\ base' = World
    /\ UNCHANGED <<chainVars, forkVars, local>>

NextConc ==
    \/ \E th \in Threads : AddBegin(th)
    \/ \E th \in Threads : AddRead(th)
    \/ \E th \in Threads : AddWrite(th)
    \/ \E th \in Threads : ImportBegin(th)
    \/ \E th \in Threads : ImportPersist(th)
    \/ \E th \in Threads : ImportHeader(th)
    \/ \E th \in Threads : ImportClear(th)
    \/ NextRound

SpecConc == Init /\ [][NextConc]_vars

\* the world after a call made alone
Alone(w, cl) ==
    IF cl.op = "add" THEN add_transaction_to_queue_block(w, "W", cl.tx).w
    ELSE IF cl.op = "import" THEN import_current_queue_block(w, "W", cl.t).w
    ELSE w

\* the worlds the calls of the round lead to from base, made one after
\* the other in some order (a thread that made no call changes nothing)
SerialOutcomes ==
    {Alone(Alone(base, call[o[1]]), call[o[2]]) :
        o \in {<<"T1", "T2">>, <<"T2", "T1">>}}

SameChain(w) ==
    /\ w.header["W"] = header["W"]
    /\ w.queue_block["W"] = queue_block["W"]
    /\ w.blocks = blocks

\* C10: whenever the calls of a round have all returned, the tip header, the
\* queue block and the persisted blocks are those some serial order of the
\* calls leads to.
C10_Serializable ==
    Quiet => \E w \in SerialOutcomes : SameChain(w)

\* the same, for the rounds in which the calls did not overlap: only one
\* thread has made a call
C10_OneCallAtATime ==
    (Quiet /\ \E th \in Threads : call[th] = NoCall)
        => \E w \in SerialOutcomes : SameChain(w)

----------------------------------------------------------------------------
(* Imports cut short: the process dies inside import_block and the Chain   *)
(* object is constructed again over the database it left behind            *)

\* the database a process leaves behind when it dies inside an import_block
\* that would have succeeded: line 675 has run, or it has not
LeftBehind(w, c, imported) == {w, persist_block(w, c, imported)}

CrashInImport(c) ==
    /\ CanImport(c)
    /\ \E b \in ImportInputs(World, c) : \E pv \in FlagsFor(b) :
          LET r == import_block(World, c, b, pv, HELIOS_TESTNET_TIMESTAMP) IN
          /\ r.result = "ok"
          /\ \E db \in LeftBehind(World, c, r.ret) : \E t \in Clock :
                Apply("crash", c,
                      Ret(Chain_init(db, c, t).w, "ok",
                          IF db = World THEN "lost" ELSE "persisted", None))

NextCrash ==
    \/ AddSend("W")
    \/ ImportQueueBlock("W")
    \/ ImportBlock("W")
    \/ CrashInImport("W")

SpecCrash == Init /\ [][NextCrash]_vars

----------------------------------------------------------------------------
(* Discovery on R's chain while W's chain imports.  Thread T1 runs         *)
(* get_receivable_transactions on R's Chain object, one database read per  *)
(* step; thread T2 runs import_current_queue_block on W's.  base is the    *)
(* world at the first read of the discovery in progress                    *)

NoneFound == [keys |-> <<>>, txs |-> <<>>, result |-> "none"]

\* get_receivable_transactions, lines 578-580: the keys are read
DiscoverBegin ==
    /\ pc["T1"] = "idle"
    /\ call' = [call EXCEPT !["T1"] = [op |-> "discover", tx |-> None, t |-> 0]]
    /\ base' = World
    /\ IF Len(receivable["R"]) = 0
         THEN ThreadStep("T1", "done", [NoneFound EXCEPT !.result = "empty"])
         ELSE ThreadStep("T1", "discover_lookup",
                         [NoneFound EXCEPT !.keys = receivable["R"]])
    /\ UNCHANGED <<chainVars, forkVars>>

\* lines 582-584: one more key is looked up in the database as it is now
DiscoverLookup ==
    /\ pc["T1"] = "discover_lookup"
    /\ LET l == local["T1"]
            th == l.keys[Len(l.txs) + 1].transaction_hash
        IN IF ~HasTransaction(World, th)
             THEN ThreadStep("T1", "done", [l EXCEPT !.result = "TransactionNotFound"])
           ELSE LET txs == Append(l.txs, get_canonical_transaction(World, th)) IN
             IF Len(txs) = Len(l.keys)
               THEN ThreadStep("T1", "done", [l EXCEPT !.txs = txs, !.result = "found"])
               ELSE ThreadStep("T1", "discover_lookup", [l EXCEPT !.txs = txs])
    /\ UNCHANGED <<chainVars, forkVars, call, base>>

\* the call has returned; the thread may call again
Return(th) ==
    /\ pc[th] = "done"
    /\ call' = [call EXCEPT ![th] = NoCall]
    /\ ThreadStep(th, "idle", None)
    /\ UNCHANGED <<chainVars, forkVars, base>>

\* W stages a send transaction while no import of W's is in progress
StageSend ==
    /\ pc["T2"] = "idle"
    /\ AddSend("W")

NextSnap ==
    \/ DiscoverBegin
    \/ DiscoverLookup
    \/ Return("T1")
    \/ StageSend
    \/ ImportBegin("T2")
    \/ ImportPersist("T2")
    \/ ImportHeader("T2")
    \/ ImportClear("T2")
    \/ Return("T2")

SpecSnap == Init /\ [][NextSnap]_vars

Discovering == call["T1"].op = "discover" /\ pc["T1"] # "idle"

----------------------------------------------------------------------------
(* validate_gaslimit on its own: a chain whose stored head has any gas     *)
(* limit from the minimum up, headers of any gas limit offered             *)

ParentGas == GAS_LIMIT_MINIMUM..MaxGas

HeaderGas == 0..(MaxGas + MaxGas \div GAS_LIMIT_ADJUSTMENT_FACTOR + 1)

\* W's chain with a genesis block of gas limit g stored
GasWorld(g) ==
    LET w0 == InitChains(EmptyWorld, Addr, HELIOS_TESTNET_TIMESTAMP)
        b0 == [vm_import_block(vm_block(w0.header["W"])) EXCEPT !.gas_limit = g]
    IN Chain_init(persist_block(w0, "W", b0), "W", MaxTime).w

InitGas ==
    /\ \E g \in ParentGas :
          /\ header = GasWorld(g).header
          /\ queue_block = GasWorld(g).queue_block
          /\ blocks = GasWorld(g).blocks
          /\ head = GasWorld(g).head
          /\ receivable = GasWorld(g).receivable
          /\ base = GasWorld(g)
    /\ last = [op |-> "init", chain |-> "W", result |-> "ok", at |-> "init"]
    /\ forkTable = vm_configuration
    /\ forkQuery = 0
    /\ forkResult = "none"
    /\ pc = [th \in Threads |-> "idle"]
    /\ call = [th \in Threads |-> NoCall]
    /\ local = [th \in Threads |-> None]

GasHeader(gl, parent_hash) ==
    [header["W"] EXCEPT !.gas_limit = gl, !.parent_hash = parent_hash]

Validated(hd) ==
    [op |-> "validate_gaslimit", chain |-> "W",
     result |-> validate_gaslimit(World, hd), at |-> "gas_limit",
     gas_limit |-> hd.gas_limit, parent_hash |-> hd.parent_hash]

\* validate_gaslimit(header) for a header whose parent is the stored head
ValidateGasLimit ==
    /\ \E gl \in HeaderGas : last' = Validated(GasHeader(gl, head["W"]))
    /\ UNCHANGED <<header, queue_block, blocks, head, receivable, forkVars, threadVars>>

\* validate_gaslimit(header) for a header whose parent hash names no header
ValidateOrphan ==
    /\ \E gl \in HeaderGas : last' = Validated(GasHeader(gl, <<"unknown">>))
    /\ UNCHANGED <<header, queue_block, blocks, head, receivable, forkVars, threadVars>>

NextGas == ValidateGasLimit \/ ValidateOrphan

SpecGas == InitGas /\ [][NextGas]_vars

ParentBounds == compute_gas_limit_bounds(get_canonical_head(World, "W"))

C14_OrphanIsValidationError ==
    \A gl \in HeaderGas :
      validate_gaslimit(World, GasHeader(gl, <<"unknown">>)) = "ValidationError"

----------------------------------------------------------------------------
(* Properties of import_block and of the queue block, one chain            *)

Count(s, x) == Cardinality({i \in DOMAIN s : s[i] = x})

TooEarly(w, b) ==
    /\ ~is_genesis(b)
    /\ b.timestamp - get_block_header_by_hash(w, b.parent_hash).timestamp
          < MIN_TIME_BETWEEN_BLOCKS

\* C1 as stated: every import of a block whose number differs from the tip
\* header's number fails with ValidationError and changes nothing.
C1_AnyWrongNumberIsValidationError ==
    \A c \in Addr : \A b \in ImportInputs(World, c) : \A pv \in BOOLEAN :
      \A t \in Clock :
        b.number # header[c].number =>
            LET r == import_block(World, c, b, pv, t) IN
            r.result = "ValidationError" /\ r.w = World

\* C1, amended: every import of a block whose number differs from the tip
\* header's number fails and leaves the tip header, the queue block and the
\* persisted storage as they were; the exception is ValidationError, except
\* for a non-genesis block stamped less than the minimum interval after its
\* parent, which the time check rejects first with NotEnoughTimeBetweenBlocks.
C1_WrongNumberRejected ==
    \A c \in Addr : \A b \in ImportInputs(World, c) : \A pv \in BOOLEAN :
      \A t \in Clock :
        b.number # header[c].number =>
            LET r == import_block(World, c, b, pv, t) IN
            /\ r.w = World
            /\ r.result = IF TooEarly(World, b) THEN "NotEnoughTimeBetweenBlocks"
                                                ELSE "ValidationError"

\* an import was rejected by the number check
C1_Witness ==
    /\ last.op = "import" /\ last.at = "number" /\ last.result = "ValidationError"
    /\ blocks # {}

\* C2: after every successful import the canonical head of the address is
\* the hash of the imported block, which is stored, and the new tip header
\* is its child: number one more, parent_hash the imported block's hash.
C2_HeadAndTipAfterImport ==
    \A c \in Addr : \A b \in ImportInputs(World, c) : \A pv \in BOOLEAN :
      \A t \in Clock :
        LET r == import_block(World, c, b, pv, t) IN
        r.result = "ok" =>
            /\ r.ret \in r.w.blocks
            /\ r.w.head[c] = HashOf(r.ret)
            /\ r.w.header[c].number = r.ret.number + 1
            /\ r.w.header[c].parent_hash = HashOf(r.ret)
            /\ r.ret.number = b.number

\* two imports succeeded on W, the second a block received from elsewhere
C2_Witness ==
    /\ last.op = "import" /\ last.result = "ok"
    /\ header["W"].number = 2
    /\ header["W"].parent_hash = head["W"]

C4_TooEarlyRejected ==
    /\ \A c \in Addr : \A b \in ImportInputs(World, c) : \A pv \in BOOLEAN :
         \A t \in Clock :
           LET r == import_block(World, c, b, pv, t) IN
           /\ TooEarly(World, b) =>
                 r.result = "NotEnoughTimeBetweenBlocks" /\ r.w = World
           /\ is_genesis(b) => r.at # "time"
    /\ \A b \in blocks :
         ~is_genesis(b) /\ HasHeader(World, b.parent_hash) =>
            b.timestamp - get_block_header_by_hash(World, b.parent_hash).timestamp
                >= MIN_TIME_BETWEEN_BLOCKS

\* the second block offered to a chain was rejected as too early
C4_Witness ==
    /\ last.op \in {"import", "import_queue"} /\ last.at = "time"
    /\ last.result = "NotEnoughTimeBetweenBlocks"
    /\ Cardinality(ChainBlocks(World, last.chain)) = 1

\* C7: adding a send transaction a second time raises nothing and changes
\* nothing: the queue block after the second call is the queue block after
\* the first, and holds the transaction once.
C7_AddSendIdempotent ==
    \A c \in Addr : \A tx \in OwnSends(c) :
        LET r1 == add_transaction_to_queue_block(World, c, tx)
            r2 == add_transaction_to_queue_block(r1.w, c, tx)
        IN /\ r1.result = "ok"
           /\ r2.result = "ok"
           /\ r2.w = r1.w
           /\ Count(r2.w.queue_block[c].transactions, tx) = 1

\* a send transaction was added to a queue block that held it already
C7_Witness ==
    /\ last.op = "add" /\ last.at = "duplicate" /\ last.result = "ok"
    /\ \E tx \in OwnSends(last.chain) :
          Count(queue_block[last.chain].transactions, tx) = 1

----------------------------------------------------------------------------
(* Properties of the transfer between two chains                           *)

CommittedReceives ==
    {p \in blocks \X (1..MaxQueue) : p[2] \in DOMAIN p[1].receive_transactions}

CommittedKey(p) == KeyOf(p[1].receive_transactions[p[2]])

\* the block holds a receive transaction for a pair that is settled already,
\* or two for one pair
SettlesTwice(b) ==
    \/ \E i \in DOMAIN b.receive_transactions : \E p \in CommittedReceives :
          KeyOf(b.receive_transactions[i]) = CommittedKey(p)
    \/ \E i, j \in DOMAIN b.receive_transactions :
          i # j /\ KeyOf(b.receive_transactions[i]) = KeyOf(b.receive_transactions[j])

\* C5: no two committed receive transactions settle the same
\* (sender block hash, send transaction) pair, and importing a block that
\* would commit a second one is rejected and changes nothing.
C5_OneReceivePerSend ==
    /\ \A p, q \in CommittedReceives : CommittedKey(p) = CommittedKey(q) => p = q
    /\ \A c \in Addr : \A b \in XferInputs(World, c) : \A pv \in BOOLEAN :
         \A t \in Clock :
           SettlesTwice(b) =>
              LET r == import_block(World, c, b, pv, t) IN
              r.result # "ok" /\ r.w = World

\* R settled a send, and a block settling one again was refused by the Executor
C5_Witness ==
    /\ last.op = "import" /\ last.chain = "R" /\ last.at = "execute"
    /\ CommittedReceives # {}
    /\ header["R"].number = 1

\* C6: a successful import on chain S of a block with a send transaction to
\* A leaves exactly one pending key (transaction hash, hash of the imported
\* block) for A; a successful import on A's chain of a block with a receive
\* transaction removes that transaction's key, which was pending, from A's
\* list, and consuming the key again answers NoSuchPending.
C6_PendingRoundTrip ==
    \A c \in Addr : \A b \in XferInputs(World, c) : \A pv \in BOOLEAN :
      \A t \in Clock :
        LET r == import_block(World, c, b, pv, t) IN
        r.result = "ok" =>
          /\ \A i \in DOMAIN r.ret.transactions :
                LET tx == r.ret.transactions[i] IN
                Count(r.w.receivable[tx.to],
                      TransactionKey(TxHash(tx), HashOf(r.ret))) = 1
          /\ \A i \in DOMAIN r.ret.receive_transactions :
                LET key == KeyOf(r.ret.receive_transactions[i]) IN
                /\ key \in list_pending(World, c)
                /\ key \notin list_pending(r.w, c)
                /\ consume_pending(r.w, c, key) = "NoSuchPending"

\* W's send was committed and R's matching receive after it
C6_Witness ==
    /\ last.op = "import_queue" /\ last.chain = "R" /\ last.result = "ok"
    /\ receivable["R"] = <<>>
    /\ \E p \in CommittedReceives :
          /\ p[1].chain = "R"
          /\ CommittedKey(p).sender_block_hash = head["W"]

\* the start of the scenario: W's chain at its genesis tip with one valid
\* send transaction to R staged, R's chain new and nothing pending for R
C9_Start(tx) ==
    /\ head["W"] = NoHead /\ header["W"].number = 0
    /\ queue_block["W"] # None
    /\ queue_block["W"].transactions = <<tx>>
    /\ queue_block["W"].receive_transactions = <<>>
    /\ head["R"] = NoHead /\ header["R"].number = 0
    /\ receivable["R"] = <<>>
    /\ IF queue_block["R"] = None THEN TRUE
         ELSE queue_block["R"].receive_transactions = <<>>

\* C9: from that start, importing W's queue block makes W's tip number 1,
\* the head of W the imported hash, and leaves one pending key for R; on
\* R's chain the discovery then returns that one transaction with that key,
\* populate stages the matching receive transaction, and importing R's
\* queue block succeeds and clears the pending key.
C9_EndToEndTransfer ==
    \A t1, t2 \in Clock :
      LET tx == SendTx("W", "R", 0)
          r1 == import_current_queue_block(World, "W", t1)
          key == TransactionKey(TxHash(tx), HashOf(r1.ret))
          rtx == ReceiveTx(HashOf(r1.ret), tx, "R")
          d == get_receivable_transactions(r1.w, "R")
          r2 == populate_queue_block_with_receive_tx(r1.w, "R")
          r3 == import_current_queue_block(r2.w, "R", t2)
      IN C9_Start(tx) =>
          /\ r1.result = "ok"
          /\ r1.w.header["W"].number = 1
          /\ r1.w.head["W"] = HashOf(r1.ret)
          /\ r1.w.receivable["R"] = <<key>>
          /\ d.result = "ok" /\ d.ret = << <<tx>>, <<key>> >>
          /\ r2.result = "ok" /\ r2.ret = <<rtx>>
          /\ r2.w.queue_block["R"].receive_transactions = <<rtx>>
          /\ r3.result = "ok"
          /\ r3.ret.receive_transactions = <<rtx>>
          /\ r3.w.receivable["R"] = <<>>

\* the scenario has run: W's tip is 1, R imported its queue block with the
\* receive transaction for W's send, nothing is pending for R
C9_Witness ==
    /\ last.op = "import_queue" /\ last.chain = "R" /\ last.result = "ok"
    /\ header["W"].number = 1
    /\ receivable["R"] = <<>>
    /\ \E b \in ChainBlocks(World, "R") :
          b.receive_transactions = <<ReceiveTx(head["W"], SendTx("W", "R", 0), "R")>>

----------------------------------------------------------------------------
(* Properties of the validation of imported blocks and of the life of the  *)
(* queue block                                                             *)

\* the import gets as far as the Executor returning a block
Executed(w, c, b) ==
    /\ TimeCheck(w, b) = "ok"
    /\ NumberCheck(w, c, b)
    /\ VMFound(b.timestamp)
    /\ vm_apply_all_transactions(w, c, b)

\* C15 as stated: a block that is not the chain's queue block, imported with
\* validation asked for, is persisted only if validate_block passes on the
\* Executor's output.
C15_NotOwnQueueBlockIsValidated ==
    \A c \in Addr : \A b \in ImportInputs(World, c) : \A t \in Clock :
      b # queue_block[c] =>
        LET r == import_block(World, c, b, TRUE, t) IN
        r.result = "ok" => validate_block(World, vm_import_block(b)) = "ok"

\* C15, amended: a block that is not of the queue block class, imported
\* with validation asked for, is persisted only if the Executor's output
\* equals it and validate_block passes; once executed, an output that
\* differs or a gas limit outside the parent's window raises
\* ValidationError; and every failure persists nothing.
C15_ForeignBlockIsValidated ==
    \A c \in Addr : \A b \in ImportInputs(World, c) : \A t \in Clock :
      ~is_queue_block(b) =>
        LET r == import_block(World, c, b, TRUE, t)
            imported == vm_import_block(b)
        IN /\ r.result = "ok" =>
                 /\ imported = b
                 /\ validate_block(World, imported) = "ok"
                 /\ r.ret = imported /\ imported \in r.w.blocks
           /\ r.result # "ok" => r.w = World
           /\ (Executed(World, c, b) /\ imported # b) =>
                 r.result = "ValidationError" /\ r.at = "unchanged"
           /\ (Executed(World, c, b) /\ imported = b
                  /\ validate_block(World, imported) = "ValidationError") =>
                 r.result = "ValidationError" /\ r.at = "validate"

\* a block received from elsewhere was refused because the Executor's
\* output differed from it
C15_Witness ==
    /\ last.op = "import" /\ last.at = "unchanged"
    /\ last.result = "ValidationError"

\* C16: the chain's own queue block, once executed, is imported whether or
\* not validation is asked for: the Executor's output differs from the
\* queue block, no unchanged check refuses it, and the block persisted and
\* returned is the Executor's output, not the queue block.
C16_QueueBlockSkipsUnchanged ==
    \A c \in Addr : \A pv \in BOOLEAN : \A t \in Clock :
      (queue_block[c] # None /\ Executed(World, c, queue_block[c])) =>
        LET b == queue_block[c]
            r == import_block(World, c, b, pv, t)
            imported == vm_import_block(b)
        IN /\ imported # b
           /\ r.result = "ok"
           /\ r.ret = imported
           /\ imported \in r.w.blocks
           /\ b \notin r.w.blocks
           /\ r.w.head[c] = HashOf(imported)

\* the queue block of W was imported with a transaction in it, so that the
\* gas used of the stored block is not the queue block's
C16_Witness ==
    /\ last.op = "import_queue" /\ last.result = "ok" /\ last.chain = "W"
    /\ \E b \in ChainBlocks(World, "W") :
          HashOf(b) = head["W"] /\ b.gas_used > 0 /\ b.kind = "block"

\* C17: after a successful import the queue block is absent, and the next
\* add_transaction_to_queue_block makes a queue block on the new tip header
\* that holds the added transaction and nothing else.
C17_QueueBlockFreshAfterImport ==
    \A c \in Addr : \A b \in ImportInputs(World, c) : \A pv \in BOOLEAN :
      \A t \in Clock :
        LET r == import_block(World, c, b, pv, t) IN
        r.result = "ok" =>
          /\ r.w.queue_block[c] = None
          /\ \A tx \in OwnSends(c) :
                LET a == add_transaction_to_queue_block(r.w, c, tx) IN
                /\ a.result = "ok"
                /\ a.w.queue_block[c] =
                      [vm_block(r.w.header[c]) EXCEPT !.transactions = <<tx>>]
                /\ a.w.queue_block[c].receive_transactions = <<>>
                /\ a.w.queue_block[c].number = r.ret.number + 1
                /\ a.w.queue_block[c].parent_hash = HashOf(r.ret)

\* a transaction was added to the queue block made after an import of a
\* queue block that held a transaction
C17_Witness ==
    /\ last.op = "add" /\ last.at = "added" /\ last.chain = "W"
    /\ queue_block["W"].number = 1
    /\ Len(queue_block["W"].transactions) = 1
    /\ \E b \in ChainBlocks(World, "W") : Len(b.transactions) > 0

\* C18: the numbers of the blocks stored for an address are 0, 1, ..., n
\* with no gap and no number twice, every stored block but the first has the
\* number that follows that of another stored block, and the tip header's
\* number is the next.
C18_NumbersAreConsecutive ==
    \A c \in Addr :
      LET cb == ChainBlocks(World, c) IN
      /\ {b.number : b \in cb} = 0..(Cardinality(cb) - 1)
      /\ \A x, y \in cb : x.number = y.number => x = y
      /\ \A x \in cb : x.number > 0 => \E y \in cb : y.number = x.number - 1
      /\ header[c].number = Cardinality(cb)

\* blocks 0 and 1 are stored for W and its Chain object was made anew
C18_Witness ==
    /\ last.op = "init" /\ last.result = "ok"
    /\ {b.number : b \in ChainBlocks(World, "W")} = {0, 1}
    /\ header["W"].number = 2

----------------------------------------------------------------------------
(* Validation of the signature fields of send and receive transactions     *)

\* evm.validation: what a validator raises, "ok" when it returns
Uint256(value) ==
    IF validate_uint256(value) THEN "ok" ELSE "ValidationError"

validate_lt_secpk1n(value) ==
    IF value >= SECPK1_N THEN "ValidationError" ELSE "ok"

validate_lt_secpk1n2_lenient(value) == "ok"

validate_lt_secpk1n2(value) ==
    IF value >= SECPK1_N \div 2 + 1 THEN "ValidationError" ELSE "ok"

\* a bound that is Python's None is the empty set here, an integer bound n
\* is {n}; an integer compared with None raises TypeError
validate_gte(value, minimum) ==
    IF minimum = {} THEN "TypeError"
    ELSE IF \E m \in minimum : value < m THEN "ValidationError" ELSE "ok"

validate_lte(value, maximum) ==
    IF maximum = {} THEN "TypeError"
    ELSE IF \E m \in maximum : value > m THEN "ValidationError" ELSE "ok"

\* evm.utils.transactions
is_eip_155_signed_transaction(tx) == tx.v >= EIP155_CHAIN_ID_OFFSET

extract_chain_id(v) ==
    IF v % 2 = 0 THEN (v - EIP155_CHAIN_ID_OFFSET - 1) \div 2
    ELSE (v - EIP155_CHAIN_ID_OFFSET) \div 2

\* the properties chain_id, v_min, v_max: a value for a transaction signed
\* with a chain id, None (the empty set) otherwise
chain_id(tx) ==
    IF is_eip_155_signed_transaction(tx) THEN {extract_chain_id(tx.v)} ELSE {}

v_min(tx) ==
    IF is_eip_155_signed_transaction(tx)
    THEN {35 + (2 * c) : c \in chain_id(tx)} ELSE {}

v_max(tx) ==
    IF is_eip_155_signed_transaction(tx)
    THEN {36 + (2 * c) : c \in chain_id(tx)} ELSE {}

\* BaseTransaction.validate, BaseReceiveTransaction.validate
Base_validate(tx) == "ok"

\* the first check of a sequence of checks that raises, or "ok"
RECURSIVE FirstRaised(_)
FirstRaised(checks) ==
    IF checks = <<>> THEN [result |-> "ok", at |-> "accepted"]
    ELSE IF Head(checks).result # "ok" THEN Head(checks)
    ELSE FirstRaised(Tail(checks))

Check(at, result) == [result |-> result, at |-> at]

\* HeliosTestnetTransaction.validate; tx.body_ok says that nonce, gas_price,
\* gas, to, value and data pass their checks
HeliosTestnetTransaction_validate(tx) ==
    FirstRaised(<<
        Check("body", IF tx.body_ok THEN "ok" ELSE "ValidationError"),
        Check("v uint256", Uint256(tx.v)),
        Check("r uint256", Uint256(tx.r)),
        Check("s uint256", Uint256(tx.s)),
        Check("r lt n", validate_lt_secpk1n(tx.r)),
        Check("r gte 1", validate_gte(tx.r, {1})),
        Check("s lt n", validate_lt_secpk1n(tx.s)),
        Check("s gte 1", validate_gte(tx.s, {1})),
        Check("v gte v_min", validate_gte(tx.v, v_min(tx))),
        Check("v lte v_max", validate_lte(tx.v, v_max(tx))),
        Check("base", Base_validate(tx)),
        Check("s lt n/2", validate_lt_secpk1n2(tx.s)) >>)

\* HeliosTestnetReceiveTransaction.validate
HeliosTestnetReceiveTransaction_validate(tx) ==
    FirstRaised(<<
        Check("v uint256", Uint256(tx.v)),
        Check("r uint256", Uint256(tx.r)),
        Check("s uint256", Uint256(tx.s)),
        Check("r lt n", validate_lt_secpk1n(tx.r)),
        Check("r gte 1", validate_gte(tx.r, {1})),
        Check("s lt n", validate_lt_secpk1n(tx.s)),
        Check("s gte 1", validate_gte(tx.s, {1})),
        Check("v gte v_min", validate_gte(tx.v, v_min(tx))),
        Check("v lte v_max", validate_lte(tx.v, v_max(tx))),
        Check("base", Base_validate(tx)),
        Check("s lt n/2", validate_lt_secpk1n2(tx.s)) >>)

validate(tx) ==
    IF tx.kind = "send" THEN HeliosTestnetTransaction_validate(tx)
    ELSE HeliosTestnetReceiveTransaction_validate(tx)

\* signature fields offered: for r and s every integer from below 1 to above
\* the curve order and the ends of the 256-bit range, for v the values
\* without a chain id and those around each chain's window
SigValues == (0 - 1)..(SECPK1_N + 1) \cup {UINT_256_MAX, UINT_256_MAX + 1}

VValues ==
    {0 - 1, 0, 27, 28, UINT_256_MAX + 1} \cup 34..(37 + 2 * MaxChainId)

SendInputs ==
    [kind : {"send"}, v : VValues, r : SigValues, s : SigValues,
     body_ok : BOOLEAN]

ReceiveInputs ==
    [kind : {"receive"}, v : VValues, r : SigValues, s : SigValues,
     body_ok : {TRUE}]

SigInputs == SendInputs \cup ReceiveInputs

Verdict(tx) ==
    [op |-> "validate", chain |-> "W", result |-> validate(tx).result,
     at |-> validate(tx).at, tx |-> tx]

\* a caller holds a transaction of any signature fields and has yet to
\* validate it
InitSig ==
    LET w == InitChains(EmptyWorld, Addr, HELIOS_TESTNET_TIMESTAMP) IN
    /\ header = w.header
    /\ queue_block = w.queue_block
    /\ blocks = w.blocks
    /\ head = w.head
    /\ receivable = w.receivable
    /\ last = [op |-> "init", chain |-> "W", result |-> "ok", at |-> "init"]
    /\ forkTable = vm_configuration
    /\ forkQuery = 0
    /\ forkResult = "none"
    /\ pc = [th \in Threads |-> "idle"]
    /\ \E tx \in SigInputs :
          call = [th \in Threads |->
                    IF th = "T1" THEN [op |-> "validate", tx |-> tx, t |-> 0]
                    ELSE NoCall]
    /\ local = [th \in Threads |-> None]
    /\ base = w

Validate(kind) ==
    /\ pc["T1"] = "idle"
    /\ call["T1"].tx.kind = kind
    /\ last' = Verdict(call["T1"].tx)
    /\ pc' = [pc EXCEPT !["T1"] = "done"]
    /\ UNCHANGED <<header, queue_block, blocks, head, receivable, forkVars,
                   call, local, base>>

\* transaction.validate() on a send transaction
ValidateSend == Validate("send")

\* transaction.validate() on a receive transaction
ValidateReceive == Validate("receive")

NextSig == ValidateSend \/ ValidateReceive

SpecSig == InitSig /\ [][NextSig]_vars

\* C19: validate() of a send or of a receive transaction raises whenever r
\* or s is below 1 or not below the curve order, and whenever s is above
\* half the curve order; it returns normally only for 1 <= r < SECPK1_N
\* and 1 <= s <= SECPK1_N / 2.
C19_SignatureRange ==
    last.op = "validate" =>
      LET tx == last.tx
          ok == last.result = "ok" IN
      /\ (tx.r < 1 \/ tx.r >= SECPK1_N) => ~ok
      /\ (tx.s < 1 \/ tx.s >= SECPK1_N) => ~ok
      /\ 2 * tx.s > SECPK1_N => ~ok
      /\ ok => /\ 1 <= tx.r /\ tx.r < SECPK1_N
               /\ 1 <= tx.s /\ 2 * tx.s <= SECPK1_N

\* a receive transaction with the largest r and the largest s allowed was
\* accepted
C19_Witness ==
    /\ last.op = "validate" /\ last.result = "ok"
    /\ last.tx.kind = "receive"
    /\ last.tx.r = SECPK1_N - 1
    /\ last.tx.s = SECPK1_N \div 2

\* the values of v that signing with chain id c produces
Window(c) == {35 + 2 * c, 36 + 2 * c}

WellSigned(tx) ==
    /\ tx.body_ok
    /\ 1 <= tx.r /\ tx.r < SECPK1_N
    /\ 1 <= tx.s /\ 2 * tx.s <= SECPK1_N

\* C20: on a chain configured with chain id MAINNET_NETWORK_ID, validate()
\* of a transaction whose other fields are valid raises when v is outside
\* {35 + 2c, 36 + 2c} for that chain id c and returns normally when v is
\* inside it; a transaction signed for another chain id is rejected.
C20_ChainIdWindow ==
    (last.op = "validate" /\ WellSigned(last.tx)) =>
      (last.result = "ok" <=> last.tx.v \in Window(MAINNET_NETWORK_ID))

----------------------------------------------------------------------------
(* Properties of the discovery and staging of receive transactions         *)

\* C21 as stated: for an address with no pending key,
\* get_receivable_transactions returns a pair of two empty lists and raises
\* nothing, and create_receivable_signed_transactions returns an empty list.
C21_EmptyPairOfLists ==
    \A a \in Addr :
      receivable[a] = <<>> =>
        /\ get_receivable_transactions(World, a).result = "ok"
        /\ get_receivable_transactions(World, a).ret = << <<>>, <<>> >>
        /\ create_receivable_signed_transactions(World, a).result = "ok"
        /\ create_receivable_signed_transactions(World, a).ret = <<>>

\* C21: for an address with no pending key, get_receivable_transactions
\* returns the pair (False, False) and raises nothing, and
\* create_receivable_signed_transactions returns an empty list.
C21_NothingPendingIsNoError ==
    \A a \in Addr :
      receivable[a] = <<>> =>
        /\ get_receivable_transactions(World, a).result = "ok"
        /\ get_receivable_transactions(World, a).ret = <<False, False>>
        /\ create_receivable_signed_transactions(World, a).result = "ok"
        /\ create_receivable_signed_transactions(World, a).ret = <<>>

\* R looked for receivable transactions when none was pending, after W had
\* stored a block
C21_Witness ==
    /\ last.op = "populate" /\ last.chain = "R"
    /\ last.result = "ok" /\ last.at = "empty"
    /\ receivable["R"] = <<>>
    /\ ChainBlocks(World, "W") # {}

\* C22: create_receivable_signed_transactions returns one receive
\* transaction per pending key of the chain's address, in the order of the
\* keys; the i-th one holds the i-th key's sender block hash and the send
\* transaction of the i-th key's transaction hash, and is signed with the
\* chain's key for the chain's network id.
C22_OneReceivePerKeyInOrder ==
    \A c \in Addr :
      LET keys == receivable[c]
          r == create_receivable_signed_transactions(World, c)
      IN keys # <<>> =>
           /\ r.result = "ok"
           /\ Len(r.ret) = Len(keys)
           /\ \A i \in DOMAIN keys :
                /\ r.ret[i].type = "receive"
                /\ r.ret[i].sender_block_hash = keys[i].sender_block_hash
                /\ TxHash(r.ret[i].transaction) = keys[i].transaction_hash
                /\ r.ret[i].receiver = c
                /\ r.ret[i].v >= EIP155_CHAIN_ID_OFFSET
                /\ extract_chain_id(r.ret[i].v) = network_id

\* R built its receive transactions while two different keys were pending
C22_Witness ==
    /\ last.op = "populate" /\ last.chain = "R"
    /\ last.result = "ok" /\ last.at = "found"
    /\ Len(receivable["R"]) = 2
    /\ receivable["R"][1] # receivable["R"][2]

ReceiveList(q) == IF q = None THEN <<>> ELSE q.receive_transactions

\* C23: populate_queue_block_with_receive_tx returns exactly the receive
\* transactions that the call added to the queue block: each returned
\* transaction is in the queue block afterwards, and a transaction that was
\* in the queue block before the call is not returned.
C23_ReturnsWhatWasStaged ==
    \A c \in Addr :
      LET r == populate_queue_block_with_receive_tx(World, c)
          before == Range(ReceiveList(queue_block[c]))
          after == Range(ReceiveList(r.w.queue_block[c]))
      IN r.result = "ok" =>
           /\ Range(r.ret) \subseteq after
           /\ Range(r.ret) = after \ before

----------------------------------------------------------------------------
(* create_header_from_parent under any fork table                          *)

\* Chain.create_header_from_parent(parent_header, timestamp=ts) called when
\* the wall clock shows now: the VM class found, and the header it builds
Chain_create_header_from_parent(cfg, parent, ts, now) ==
    LET vm == get_vm_class_for_block_timestamp(cfg, now) IN
    IF vm \in {"VMNotFound", "ValidationError"}
      THEN [result |-> vm, vm |-> "none", header |-> None]
      ELSE [result |-> "ok", vm |-> vm,
            header |-> vm_create_header_from_parent(parent, ts)]

\* a stored block of timestamp pt, to be the parent
ParentAt(pt) ==
    vm_import_block(vm_block(create_genesis_header("W", pt)))

CreateHeaderFromParent ==
    \E pt \in Times, ts \in Times, now \in Clock :
      LET r == Chain_create_header_from_parent(forkTable, ParentAt(pt), ts, now) IN
        /\ forkQuery' = now
        /\ forkResult' = r.vm
        /\ last' = [op |-> "create_header", chain |-> "W", result |-> r.result,
                    at |-> "create_header", parent_timestamp |-> pt,
                    timestamp |-> ts]
        /\ UNCHANGED <<forkTable, header, queue_block, blocks, head, receivable,
                       threadVars>>

NextHeader == CreateHeaderFromParent

SpecHeader == InitFork /\ [][NextHeader]_vars

\* C24: create_header_from_parent builds the child header with the VM class
\* active at the parent header's timestamp, and two calls with the same
\* parent header and the same timestamp override made at different wall
\* clock times give the same result.
C24_RulesetFromParentTimestamp ==
    \A pt \in Times, ts \in Times, now \in Clock :
      LET r == Chain_create_header_from_parent(forkTable, ParentAt(pt), ts, now) IN
      /\ r.result = "ok" =>
            r.vm = get_vm_class_for_block_timestamp(forkTable, pt)
      /\ \A later \in Clock :
            r = Chain_create_header_from_parent(forkTable, ParentAt(pt), ts, later)

----------------------------------------------------------------------------
(* Properties of the construction of a Chain object and of its queue block *)

\* C25: a Chain object made for an address with no canonical head has a
\* genesis header (number 0, null parent hash) as tip; made for an address
\* with a canonical head it has the child of the head as tip (number one
\* more, parent_hash the head's hash); in both cases its queue block is the
\* empty queue block built on the tip header, with the tip's number.
C25_InitialTipAndQueueBlock ==
    \A c \in Addr : \A t \in Clock :
      LET r == Chain_init(World, c, t)
          tip == r.w.header[c]
          q == r.w.queue_block[c]
      IN r.result = "ok" =>
           /\ head[c] = NoHead =>
                /\ tip.number = 0
                /\ tip.parent_hash = ZERO_HASH32
           /\ head[c] # NoHead =>
                /\ tip.number = get_canonical_head(World, c).number + 1
                /\ tip.parent_hash = head[c]
           /\ q # None
           /\ is_queue_block(q)
           /\ q.number = tip.number
           /\ q.parent_hash = tip.parent_hash
           /\ q.transactions = <<>> /\ q.receive_transactions = <<>>
           /\ r.w.blocks = blocks /\ r.w.head = head

\* a Chain object was made for W after W's chain had a stored head
C25_Witness ==
    /\ last.op = "init" /\ last.chain = "W" /\ last.result = "ok"
    /\ head["W"] # NoHead
    /\ header["W"].number = get_canonical_head(World, "W").number + 1
    /\ queue_block["W"] # None
    /\ queue_block["W"].number = header["W"].number

----------------------------------------------------------------------------
(* Construction of a Chain object of a class with any fork table           *)

\* only a timestamp that occurs twice refused
validate_vm_configuration_unique(cfg) ==
    IF \E i, j \in DOMAIN cfg : i # j /\ cfg[i].start = cfg[j].start
      THEN "ValidationError" ELSE "ok"

\* evm.validation.validate_vm_configuration: "ok" or the exception raised
validate_vm_configuration(cfg) ==
    IF \E i, j \in DOMAIN cfg : i < j /\ cfg[i].start >= cfg[j].start
      THEN "ValidationError" ELSE "ok"

\* Chain.__init__ of a class whose vm_configuration is cfg
Chain_init_configured(cfg, w, c, t) ==
    IF cfg = <<>> THEN Ret(w, "ValueError", "vm_configuration", None)
    ELSE IF validate_vm_configuration(cfg) # "ok"
      THEN Ret(w, validate_vm_configuration(cfg), "vm_configuration", None)
    ELSE IF get_vm_class_for_block_timestamp(cfg, t)
              \in {"VMNotFound", "ValidationError"}
      THEN Ret(w, "VMNotFound", "init", None)
    ELSE
      LET h == IF w.head[c] = NoHead
                 THEN create_genesis_header(c, t)
                 ELSE create_header_from_parent(get_canonical_head(w, c), t)
          w1 == [w EXCEPT !.header[c] = h]
      IN Ret([w1 EXCEPT !.queue_block[c] = get_block(w1, c)], "ok", "init", None)

\* fork tables of any order of activation timestamps, the empty one too
AnyForkTables == SeqsUpTo(ForkEntries, MaxForks)

\* no Chain object made yet; the class has any fork table
InitConfig ==
    /\ header = EmptyWorld.header
    /\ queue_block = EmptyWorld.queue_block
    /\ blocks = EmptyWorld.blocks
    /\ head = EmptyWorld.head
    /\ receivable = EmptyWorld.receivable
    /\ last = [op |-> "none", chain |-> "W", result |-> "ok", at |-> "none"]
    /\ forkTable \in AnyForkTables
    /\ forkQuery = 0
    /\ forkResult = "none"
    /\ pc = [th \in Threads |-> "idle"]
    /\ call = [th \in Threads |-> NoCall]
    /\ local = [th \in Threads |-> None]
    /\ base = EmptyWorld

NewConfiguredChain(c) ==
    \E t \in Clock :
        Apply("init", c, Chain_init_configured(forkTable, World, c, t))

NextConfig == NewConfiguredChain("W") \/ NewConfiguredChain("R")

SpecConfig == InitConfig /\ [][NextConfig]_vars

\* the exceptions by which the constructor refuses a fork table
InvalidConfiguration == {"ValueError", "ValidationError"}

SetQueueBlock(c) ==
    \E b \in ChainBlocks(World, c) :
        Apply("set_queue_block", c,
              Ret([World EXCEPT !.queue_block[c] = b], "ok", "set", None))

NextAdopt ==
    \/ NewChain("W")
    \/ AddSend("W")
    \/ ImportQueueBlock("W")
    \/ ImportBlock("W")
    \/ SetQueueBlock("W")

SpecAdopt == Init /\ [][NextAdopt]_vars

AddInputs(w, c) == OwnSends(c) \cup KnownReceives(w, c)

\* a queue block that is present and is not of the queue-block class
NotStaging(c) == queue_block[c] # None /\ ~is_queue_block(queue_block[c])

AddRefused(c) ==
    \A tx \in AddInputs(World, c) :
      LET r == add_transaction_to_queue_block(World, c, tx) IN
      /\ r.result = "ValidationError"
      /\ r.w = World

\* the Chain object of c has just been made over a stored head
FreshOverHead(c) ==
    /\ last.op = "init" /\ last.chain = c /\ last.result = "ok"
    /\ head[c] # NoHead

\* C27 as stated: add_transaction_to_queue_block raises, leaving the queue
\* block as it was, whenever the queue block present is not of the
\* queue-block class, and also when it is the queue block that the
\* constructor made over an existing head.
C27_InitialQueueBlockRefusesAdds ==
    \A c \in Addr :
      /\ NotStaging(c) => AddRefused(c)
      /\ FreshOverHead(c) => AddRefused(c)

\* C27: add_transaction_to_queue_block raises, leaving the queue block as
\* it was, whenever the queue block present is not of the queue-block
\* class; the queue block that the constructor made over an existing head
\* is of that class and takes the transaction.
C27_NonQueueBlockRefusesAdds ==
    \A c \in Addr :
      /\ NotStaging(c) => AddRefused(c)
      /\ FreshOverHead(c) =>
            \A tx \in AddInputs(World, c) :
               LET r == add_transaction_to_queue_block(World, c, tx) IN
               /\ r.result = "ok" /\ r.at = "added"
               /\ tx \in Range(r.w.queue_block[c].transactions)
                            \cup Range(r.w.queue_block[c].receive_transactions)

\* a transaction was offered while the queue block was a stored block, and
\* was refused
C27_Witness ==
    /\ last.op = "add" /\ last.chain = "W"
    /\ last.result = "ValidationError" /\ last.at = "is_queue_block"
    /\ queue_block["W"] \in ChainBlocks(World, "W")

----------------------------------------------------------------------------
(* estimate_gas                                                            *)

\* state_in_temp_block of the VM of at_header: a copy of the state in which
\* a block on top of at_header holds the transaction; the copy is dropped
\* when the with statement ends
state_in_temp_block(w, c, at_header, tx) ==
    LET temp == [vm_import_block(
                    vm_block(vm_create_header_from_parent(at_header,
                                                          at_header.timestamp)))
                  EXCEPT !.transactions = <<tx>>]
    IN [w EXCEPT !.receivable = ReceivableAfter(w, c, temp)]

\* the gas estimator: the estimate for a transaction run in the state given
gas_estimator(state, tx) == 1

\* the transaction run in the chain's own state, not in a copy
estimate_gas_inPlace(w, c, tx, at_header) ==
    IF at_header = None /\ w.head[c] = NoHead
      THEN Ret(w, "CanonicalHeadNotFound", "head", None)
    ELSE
      LET h == IF at_header = None THEN get_canonical_head(w, c) ELSE at_header
      IN IF ~VMFound(h.timestamp) THEN Ret(w, "VMNotFound", "vm", None)
         ELSE Ret(state_in_temp_block(w, c, h, tx), "ok", "estimated",
                  [gas |-> gas_estimator(state_in_temp_block(w, c, h, tx), tx),
                   at_header |-> HashOf(h)])

\* Chain.estimate_gas: ret is the estimate and the hash of the header the
\* transaction was run on
estimate_gas(w, c, tx, at_header) ==
    IF at_header = None /\ w.head[c] = NoHead
      THEN Ret(w, "CanonicalHeadNotFound", "head", None)
    ELSE
      LET h == IF at_header = None THEN get_canonical_head(w, c) ELSE at_header
      IN IF ~VMFound(h.timestamp) THEN Ret(w, "VMNotFound", "vm", None)
         ELSE Ret(w, "ok", "estimated",
                  [gas |-> gas_estimator(state_in_temp_block(w, c, h, tx), tx),
                   at_header |-> HashOf(h)])

\* the at_header argument: none given, or the header of a stored block
HeaderArgs(w, c) == {None} \cup ChainBlocks(w, c)

EstimateGas(c) ==
    \E tx \in OwnSends(c) : \E h \in HeaderArgs(World, c) :
        Apply("estimate_gas", c, estimate_gas(World, c, tx, h))

NextEstimate ==
    \/ AddSend("W")
    \/ ImportQueueBlock("W")
    \/ ImportBlock("W")
    \/ EstimateGas("W")

SpecEstimate == Init /\ [][NextEstimate]_vars

\* C28: estimate_gas leaves the tip header, the queue block, the canonical
\* head, the stored blocks and the account state as they were, whether it
\* returns or raises; called without a header it runs the transaction on
\* the canonical head.
C28_EstimateGasChangesNothing ==
    \A c \in Addr : \A tx \in OwnSends(c) : \A h \in HeaderArgs(World, c) :
      LET r == estimate_gas(World, c, tx, h) IN
      /\ r.w = World
      /\ (h = None /\ r.result = "ok") => r.ret.at_header = head[c]
      /\ (h # None /\ r.result = "ok") => r.ret.at_header = HashOf(h)

\* an estimate was returned for a chain with a stored head and a
\* transaction staged in its queue block
C28_Witness ==
    /\ last.op = "estimate_gas" /\ last.chain = "W" /\ last.result = "ok"
    /\ head["W"] # NoHead
    /\ queue_block["W"] # None
    /\ Len(queue_block["W"].transactions) > 0

----------------------------------------------------------------------------
(* The cycle of staging and importing                                      *)

ImportOps == {"import", "import_queue"}

\* a timestamp late enough after the stored head's is within the bound
TimeLeft(c) ==
    IF head[c] = NoHead THEN TRUE
    ELSE get_canonical_head(World, c).timestamp + MIN_TIME_BETWEEN_BLOCKS
            <= MaxTime

\* some signed block of the tip's number, received from elsewhere, imports
\* now
Importable(c) ==
    \E b \in ExternalBlocks(World, c) : \E pv \in BOOLEAN : \E t \in Clock :
        /\ b.number = header[c].number
        /\ ~is_queue_block(b)
        /\ import_block(World, c, b, pv, t).result = "ok"

\* C29: an import that fails leaves the chain as it was, and after it (as
\* in every state, after a successful import too) a valid block of the
\* tip's number is imported successfully, and a transaction of the
\* account's next nonce can be staged and the queue block holding it
\* imported; no state ends the cycle.
C29_RejectionIsNotSticky ==
    \A c \in {"W"} :
      /\ \A b \in ImportInputs(World, c) : \A pv \in FlagsFor(b) :
            LET r == import_block(World, c, b, pv, HELIOS_TESTNET_TIMESTAMP) IN
            r.result # "ok" => r.w = World
      /\ TimeLeft(c) => Importable(c)
      /\ (queue_block[c] = None \/ (is_queue_block(queue_block[c])
                                     /\ queue_block[c].transactions = <<>>)) =>
            \A tx \in {x \in OwnSends(c) : x.nonce = AccountNonce(World, c)} :
              LET a == add_transaction_to_queue_block(World, c, tx) IN
              /\ a.result = "ok" /\ a.at = "added"
              /\ a.w.queue_block[c].number = header[c].number
              /\ (header[c].number = 0
                    \/ check_time_since_parent_block(World, a.w.queue_block[c])) =>
                   \E t \in Clock :
                     import_current_queue_block(a.w, c, t).result = "ok"

\* an import has just failed on a chain with a stored head; a valid block
\* of the tip's number can be imported and a transaction of the next nonce
\* staged
C29_Witness ==
    /\ last.op \in ImportOps /\ last.chain = "W" /\ last.result # "ok"
    /\ head["W"] # NoHead
    /\ Importable("W")
    /\ AccountNonce(World, "W") < MaxNonce

----------------------------------------------------------------------------
(* The two lists of the queue block                                        *)

SendList(q) == IF q = None THEN <<>> ELSE q.transactions

\* C30: add_transaction_to_queue_block puts a receive transaction in the
\* queue block's list of receive transactions only, and only when it is not
\* there yet, so that the same receive transaction added twice is there
\* once; a send transaction leaves the list of receive transactions as it
\* was and a receive transaction leaves the list of send transactions as it
\* was.
C30_DispatchAndReceiveDedup ==
    \A c \in Addr : \A tx \in AddInputs(World, c) :
      LET r == add_transaction_to_queue_block(World, c, tx)
          again == add_transaction_to_queue_block(r.w, c, tx)
          before == queue_block[c]
          after == r.w.queue_block[c]
      IN r.result = "ok" =>
           /\ tx.type = "send" =>
                ReceiveList(after) = ReceiveList(before)
           /\ tx.type = "receive" =>
                /\ SendList(after) = SendList(before)
                /\ Count(ReceiveList(after), tx) = 1
                /\ Count(ReceiveList(before), tx) = 1 => after = before
                /\ Count(ReceiveList(before), tx) = 0 =>
                      ReceiveList(after) = Append(ReceiveList(before), tx)
                /\ again.result = "ok"
                /\ again.w.queue_block[c] = after

\* R staged the receive transaction of its one pending key; its queue block
\* holds that receive transaction once and no send transaction
C30_Witness ==
    /\ last.op = "populate" /\ last.chain = "R" /\ last.result = "ok"
    /\ Len(receivable["R"]) = 1
    /\ queue_block["R"] # None
    /\ Len(queue_block["R"].receive_transactions) = 1
    /\ KeyOf(queue_block["R"].receive_transactions[1]) = receivable["R"][1]
    /\ queue_block["R"].transactions = <<>>

----------------------------------------------------------------------------
(* The order of the checks of import_block                                 *)

\* the places of import_block reached only after VM.import_block was called
AfterExecutor == {"execute", "unchanged", "validate", "advance", "ok"}

\* C31: import_block makes the time check first, then the number check,
\* then calls the Executor: a non-genesis block that is too early and has
\* the wrong number fails with NotEnoughTimeBetweenBlocks, and the Executor
\* is not called for a block that fails either check.
C31_ChecksInOrder ==
    \A c \in Addr : \A b \in ImportInputs(World, c) : \A pv \in FlagsFor(b) :
      LET r == import_block(World, c, b, pv, HELIOS_TESTNET_TIMESTAMP) IN
      /\ TooEarly(World, b) =>
            r.at = "time" /\ r.result = "NotEnoughTimeBetweenBlocks"
      /\ (~TooEarly(World, b) /\ b.number # header[c].number) =>
            r.at = "number" /\ r.result = "ValidationError"
      /\ r.at \in AfterExecutor =>
            ~TooEarly(World, b) /\ b.number = header[c].number

\* an import has just failed at the time check, and a block that is too
\* early and has the wrong number is among those offered
C31_Witness ==
    /\ last.op = "import" /\ last.chain = "W" /\ last.at = "time"
    /\ last.result = "NotEnoughTimeBetweenBlocks"
    /\ \E b \in ExternalBlocks(World, "W") :
          /\ TooEarly(World, b) /\ b.number # header["W"].number
          /\ import_block(World, "W", b, TRUE, HELIOS_TESTNET_TIMESTAMP).at = "time"

----------------------------------------------------------------------------
(* What a persisted block has passed                                       *)

\* the import got as far as chaindb.persist_block (line 675)
Persisted(r) == r.at \in {"advance", "ok"}

\* C32 as stated: a block persisted by import_block called with
\* perform_validation = True has passed the unchanged check and
\* validate_block, unless it is the chain's own current queue block; a
\* block of the queue block class that is not the chain's own is validated.
C32_PersistedPassedBothChecks ==
    \A c \in Addr : \A b \in ImportInputs(World, c) : \A t \in Clock :
      LET r == import_block(World, c, b, TRUE, t)
          imported == vm_import_block(b)
      IN (Persisted(r) /\ b # queue_block[c]) =>
            /\ ensure_imported_block_unchanged(imported, b)
            /\ validate_block(World, imported) = "ok"

\* C32, amended: a block persisted by import_block called with
\* perform_validation = True has passed the unchanged check and
\* validate_block unless it is of the queue block class; a block of the
\* queue block class, the chain's own or not, is persisted as soon as the
\* Executor accepts it, though the Executor's output differs from it.
C32_PersistedPassedUnlessQueueClass ==
    \A c \in Addr : \A b \in ImportInputs(World, c) : \A t \in Clock :
      LET r == import_block(World, c, b, TRUE, t)
          imported == vm_import_block(b)
      IN /\ (Persisted(r) /\ ~is_queue_block(b)) =>
               /\ ensure_imported_block_unchanged(imported, b)
               /\ validate_block(World, imported) = "ok"
         /\ (is_queue_block(b) /\ Executed(World, c, b)) =>
               /\ Persisted(r)
               /\ ~ensure_imported_block_unchanged(imported, b)
               /\ imported \in r.w.blocks

\* a block was just persisted, and among the blocks offered now there is
\* one of the queue block class, not the chain's own, that is persisted
\* unvalidated, and one of the block class that is persisted validated
C32_Witness ==
    /\ last.op = "import" /\ last.chain = "W" /\ last.result = "ok"
    /\ \E b \in ExternalBlocks(World, "W") :
          /\ is_queue_block(b) /\ b # queue_block["W"]
          /\ Persisted(import_block(World, "W", b, TRUE, HELIOS_TESTNET_TIMESTAMP))
          /\ validate_block(World, vm_import_block(b)) # "ok"
    /\ \E b \in ExternalBlocks(World, "W") :
          /\ ~is_queue_block(b)
          /\ Persisted(import_block(World, "W", b, TRUE, HELIOS_TESTNET_TIMESTAMP))

----------------------------------------------------------------------------
(* import_current_queue_block with no queue block                          *)

\* C33: import_current_queue_block called while the queue block is absent
\* fails, persists nothing and leaves the tip header and the canonical
\* head as they were; the queue block is absent after every successful
\* import, so a second call made directly after one imports nothing.
C33_AbsentQueueBlockImportsNothing ==
    \A c \in Addr : \A t \in Clock :
      /\ queue_block[c] = None =>
            LET r == import_current_queue_block(World, c, t) IN
            /\ r.result # "ok" /\ ~Persisted(r)
            /\ r.w.blocks = blocks
            /\ r.w.header[c] = header[c]
            /\ r.w.head[c] = head[c]
            /\ r.w = World
      /\ queue_block[c] # None =>
            LET r == import_current_queue_block(World, c, t) IN
            r.result = "ok" =>
              LET again == import_current_queue_block(r.w, c, t) IN
              /\ again.result # "ok"
              /\ again.w = r.w

\* import_current_queue_block was called directly after a successful
\* import, with no queue block, and failed
C33_Witness ==
    /\ last.op = "import_queue" /\ last.chain = "W" /\ last.at = "none"
    /\ last.result # "ok"
    /\ queue_block["W"] = None
    /\ head["W"] # NoHead
    /\ header["W"].number > 0

----------------------------------------------------------------------------
(* PhotonVM: apply_all_transactions and apply_receipt_to_header            *)

Blooms == 0..(2 ^ BloomBits - 1)

\* int | int, bit by bit
RECURSIVE BitOr(_, _)
BitOr(a, b) ==
    IF a = 0 THEN b
    ELSE IF b = 0 THEN a
    ELSE 2 * BitOr(a \div 2, b \div 2)
           + (IF a % 2 = 1 THEN 1 ELSE IF b % 2 = 1 THEN 1 ELSE 0)

\* the receipt's bloom replaces the header's
apply_receipt_to_header_bloomReplaced(base_header, receipt) ==
    [base_header EXCEPT !.bloom = receipt.bloom,
                        !.gas_used = @ + receipt.gas_used]

\* the receipt's gas_used taken as the running total
apply_receipt_to_header_gasReplaced(base_header, receipt) ==
    [base_header EXCEPT !.bloom = BitOr(@, receipt.bloom),
                        !.gas_used = receipt.gas_used]

\* PhotonVM.apply_receipt_to_header
apply_receipt_to_header(base_header, receipt) ==
    [base_header EXCEPT !.bloom = BitOr(@, receipt.bloom),
                        !.gas_used = @ + receipt.gas_used]

\* a transaction as the VM sees it: the gas its execution uses and the
\* bloom of the logs it emits
PhotonTx(kind, i) ==
    [kind |-> kind, nonce |-> i, gas |-> i,
     logs |-> 2 ^ ((IF kind = "send" THEN i - 1 ELSE i) % BloomBits)]

PhotonSends == {PhotonTx("send", i) : i \in 1..MaxPhotonTxs}
PhotonReceives == {PhotonTx("receive", i) : i \in 1..MaxPhotonTxs}

\* the execution of one transaction, and the receipt made of it
Computation(tx) == [tx |-> tx, gas_used |-> tx.gas, logs |-> tx.logs]

make_receipt(base_header, computation) ==
    [gas_used |-> computation.gas_used, bloom |-> computation.logs]

\* validate_transaction_against_header: the transaction's gas must fit
\* under the header's gas limit
validate_transaction_against_header(base_header, tx) ==
    base_header.gas_used + tx.gas <= base_header.gas_limit

\* the transactions applied one after the other, each to the header the
\* one before it produced; the first refused stops the run
RECURSIVE ApplyEach(_, _)
ApplyEach(acc, txs) ==
    IF txs = <<>> THEN acc
    ELSE
      LET tx == Head(txs) IN
      IF ~validate_transaction_against_header(acc.header, tx)
        THEN [acc EXCEPT !.result = "ValidationError"]
      ELSE
        LET computation == Computation(tx)
            receipt == make_receipt(acc.header, computation)
        IN ApplyEach(
             [applied |-> Append(acc.applied, tx),
              header |-> apply_receipt_to_header(acc.header, receipt),
              receipts |-> Append(acc.receipts, receipt),
              computations |-> Append(acc.computations, computation),
              result |-> "ok"],
             Tail(txs))

ApplyFrom(applied, txs, base_header) ==
    ApplyEach([applied |-> applied, header |-> base_header, receipts |-> <<>>,
               computations |-> <<>>, result |-> "ok"], txs)

\* VM._apply_all_receive_transactions / VM._apply_all_send_transactions
apply_all_receive_transactions(applied, txs, base_header) ==
    ApplyFrom(applied, txs, base_header)

apply_all_send_transactions(applied, txs, base_header) ==
    ApplyFrom(applied, txs, base_header)

\* what apply_all_transactions returns or raises; applied is the VM's
\* state afterwards: the transactions executed, in the order of execution
Applied(result, applied, last_header, receipts, receive_c, send_c, processed) ==
    [op |-> "apply_all", chain |-> "W", at |-> "photon", result |-> result,
     applied |-> applied, header |-> last_header, receipts |-> receipts,
     receive_computations |-> receive_c,
     send_computations |-> send_c,
     processed_receive_transactions |-> processed]

\* the send transactions run first, the receive transactions from the
\* header they produce (the order of the lines commented out, 71-75)
apply_all_transactions_sendsFirst(applied, block) ==
    LET snd == apply_all_send_transactions(applied, block.transactions,
                                           block.header)
        rcv == apply_all_receive_transactions(snd.applied,
                                              block.receive_transactions,
                                              snd.header)
    IN
    IF snd.result # "ok"
      THEN Applied(snd.result, snd.applied, None, <<>>, <<>>, <<>>, <<>>)
    ELSE IF rcv.result # "ok"
      THEN Applied(rcv.result, rcv.applied, None, <<>>, <<>>, <<>>, <<>>)
    ELSE Applied("ok", rcv.applied, rcv.header, snd.receipts \o rcv.receipts,
                 rcv.computations, snd.computations,
                 block.receive_transactions)

\* the send phase started from the block's header, not from the header the
\* receive phase produced
apply_all_transactions_sendsFromBlockHeader(applied, block) ==
    LET rcv == apply_all_receive_transactions(applied,
                                              block.receive_transactions,
                                              block.header)
        snd == apply_all_send_transactions(rcv.applied, block.transactions,
                                           block.header)
    IN
    IF rcv.result # "ok"
      THEN Applied(rcv.result, rcv.applied, None, <<>>, <<>>, <<>>, <<>>)
    ELSE IF snd.result # "ok"
      THEN Applied(snd.result, snd.applied, None, <<>>, <<>>, <<>>, <<>>)
    ELSE Applied("ok", snd.applied, snd.header, snd.receipts \o rcv.receipts,
                 rcv.computations, snd.computations,
                 block.receive_transactions)

\* the receipts returned in the order they were made
apply_all_transactions_receiptsInRunOrder(applied, block) ==
    LET rcv == apply_all_receive_transactions(applied,
                                              block.receive_transactions,
                                              block.header)
        snd == apply_all_send_transactions(rcv.applied, block.transactions,
                                           rcv.header)
    IN
    IF rcv.result # "ok"
      THEN Applied(rcv.result, rcv.applied, None, <<>>, <<>>, <<>>, <<>>)
    ELSE IF snd.result # "ok"
      THEN Applied(snd.result, snd.applied, None, <<>>, <<>>, <<>>, <<>>)
    ELSE Applied("ok", snd.applied, snd.header, rcv.receipts \o snd.receipts,
                 rcv.computations, snd.computations,
                 block.receive_transactions)

\* PhotonVM.apply_all_transactions, lines 78-106
apply_all_transactions(applied, block) ==
    LET rcv == apply_all_receive_transactions(applied,
                                              block.receive_transactions,
                                              block.header)
        snd == apply_all_send_transactions(rcv.applied, block.transactions,
                                           rcv.header)
    IN
    IF rcv.result # "ok"
      THEN Applied(rcv.result, rcv.applied, None, <<>>, <<>>, <<>>, <<>>)
    ELSE IF snd.result # "ok"
      THEN Applied(snd.result, snd.applied, None, <<>>, <<>>, <<>>, <<>>)
    ELSE Applied("ok", snd.applied, snd.header, snd.receipts \o rcv.receipts,
                 rcv.computations, snd.computations,
                 block.receive_transactions)

(* Inputs *)

\* headers of blocks under construction: some gas used and some bloom bits
\* set already, the gas limit at its floor
PhotonHeaders ==
    {[chain |-> "W", number |-> 1, parent_hash |-> ZERO_HASH32,
      timestamp |-> HELIOS_TESTNET_TIMESTAMP, gas_limit |-> GAS_LIMIT_MINIMUM,
      gas_used |-> gu, bloom |-> bl] : gu \in 0..1, bl \in Blooms}

Lists(S) == {q \in SeqsUpTo(S, MaxPhotonTxs) : NoDuplicates(q)}

PhotonBlocks ==
    {[kind |-> "block", header |-> h, transactions |-> s,
      receive_transactions |-> r] :
        h \in PhotonHeaders, s \in Lists(PhotonSends), r \in Lists(PhotonReceives)}

\* a VM that has executed nothing, about to be given a block
InitPhoton ==
    LET w == InitChains(EmptyWorld, Addr, HELIOS_TESTNET_TIMESTAMP) IN
    /\ header = w.header
    /\ queue_block = w.queue_block
    /\ blocks = w.blocks
    /\ head = w.head
    /\ receivable = w.receivable
    /\ last = [op |-> "init", chain |-> "W", result |-> "ok", at |-> "init"]
    /\ forkTable = vm_configuration
    /\ forkQuery = 0
    /\ forkResult = "none"
    /\ pc = [th \in Threads |-> "idle"]
    /\ \E block \in PhotonBlocks :
          call = [th \in Threads |->
                    IF th = "T1" THEN [op |-> "apply_all", tx |-> block, t |-> 0]
                    ELSE NoCall]
    /\ local = [th \in Threads |-> None]
    /\ base = w

ApplyAllTransactions ==
    /\ pc["T1"] = "idle"
    /\ last' = apply_all_transactions(<<>>, call["T1"].tx)
    /\ pc' = [pc EXCEPT !["T1"] = "done"]
    /\ UNCHANGED <<header, queue_block, blocks, head, receivable, forkVars,
                   call, local, base>>

NextPhoton == ApplyAllTransactions

SpecPhoton == InitPhoton /\ [][NextPhoton]_vars

RECURSIVE GasOf(_)
GasOf(txs) == IF txs = <<>> THEN 0 ELSE Head(txs).gas + GasOf(Tail(txs))

ReceiptOf(tx) == [gas_used |-> tx.gas, bloom |-> tx.logs]

IsPrefix(p, q) == Len(p) <= Len(q) /\ \A i \in DOMAIN p : p[i] = q[i]

\* C34: apply_all_transactions executes every receive transaction of the
\* block before any send transaction, also when it stops at a transaction
\* that is refused; the send phase starts from the header the receive
\* phase produced, so a first send transaction that no longer fits under
\* the gas limit after the receive transactions is refused and the header
\* returned carries the gas of both phases; and the receipts returned are
\* those of the send transactions, in order, followed by those of the
\* receive transactions, in order.
C34_ReceivesFirstReceiptsSendsFirst ==
    last.op = "apply_all" =>
      LET block == call["T1"].tx
          R == block.receive_transactions
          S == block.transactions
          h == block.header
      IN
      /\ IsPrefix(last.applied, R \o S)
      /\ \A i, j \in DOMAIN last.applied :
            (last.applied[i].kind = "receive" /\ last.applied[j].kind = "send")
              => i < j
      /\ (h.gas_used + GasOf(R) <= h.gas_limit /\ S # <<>>) =>
            IF h.gas_used + GasOf(R) + S[1].gas > h.gas_limit
              THEN last.result = "ValidationError" /\ last.applied = R
              ELSE Len(last.applied) > Len(R)
      /\ last.result = "ok" =>
            /\ last.applied = R \o S
            /\ last.header.gas_used = h.gas_used + GasOf(R) + GasOf(S)
            /\ Len(last.receipts) = Len(S) + Len(R)
            /\ \A i \in DOMAIN S : last.receipts[i] = ReceiptOf(S[i])
            /\ \A j \in DOMAIN R : last.receipts[Len(S) + j] = ReceiptOf(R[j])
            /\ last.processed_receive_transactions = R

\* a block with a receive transaction and two send transactions was
\* applied whole: the receive transaction was executed first, and the first
\* receipt returned is that of the first send transaction
C34_Witness ==
    /\ last.op = "apply_all" /\ last.result = "ok"
    /\ Len(call["T1"].tx.receive_transactions) >= 1
    /\ Len(call["T1"].tx.transactions) >= 2
    /\ Len(last.receipts) >= 3
    /\ last.applied[1].kind = "receive"
    /\ last.receipts[1] = ReceiptOf(call["T1"].tx.transactions[1])

----------------------------------------------------------------------------
(* Receipts applied to a header, one after the other                       *)

Receipts == [gas_used : 0..MaxPhotonTxs, bloom : Blooms]

\* a header under construction, no receipt applied to it yet
InitReceipt ==
    LET w == InitChains(EmptyWorld, Addr, HELIOS_TESTNET_TIMESTAMP) IN
    /\ header = w.header
    /\ queue_block = w.queue_block
    /\ blocks = w.blocks
    /\ head = w.head
    /\ receivable = w.receivable
    /\ last = [op |-> "init", chain |-> "W", result |-> "ok", at |-> "init",
               gas_sum |-> 0, count |-> 0]
    /\ forkTable = vm_configuration
    /\ forkQuery = 0
    /\ forkResult = "none"
    /\ pc = [th \in Threads |-> "idle"]
    /\ \E h \in PhotonHeaders :
          /\ call = [th \in Threads |->
                       IF th = "T1" THEN [op |-> "apply_receipt", tx |-> h, t |-> 0]
                       ELSE NoCall]
          /\ local = [th \in Threads |-> IF th = "T1" THEN h ELSE None]
    /\ base = w

\* apply_receipt_to_header on the running header; the receipts are those of
\* transactions that fit under the gas limit
ApplyReceiptToHeader ==
    \E receipt \in Receipts :
      LET base_header == local["T1"]
          new_header == apply_receipt_to_header(base_header, receipt)
      IN
      /\ base_header.gas_used + receipt.gas_used <= base_header.gas_limit
      /\ local' = [local EXCEPT !["T1"] = new_header]
      /\ last' = [op |-> "apply_receipt", chain |-> "W", result |-> "ok",
                  at |-> "photon", base_header |-> base_header,
                  receipt |-> receipt, ret |-> new_header,
                  gas_sum |-> last.gas_sum + receipt.gas_used,
                  count |-> IF last.count < 2 THEN last.count + 1 ELSE 2]
      /\ UNCHANGED <<header, queue_block, blocks, head, receivable, forkVars,
                     pc, call, base>>

NextReceipt == ApplyReceiptToHeader

SpecReceipt == InitReceipt /\ [][NextReceipt]_vars

Bit(x, i) == (x \div (2 ^ i)) % 2

BitPositions == 0..(BloomBits - 1)

\* C35: apply_receipt_to_header returns the base header with gas_used
\* raised by the receipt's gas_used and with the bloom that has exactly the
\* bits set in the base bloom or in the receipt's bloom, so no bit of the
\* base bloom is cleared, and with every other field as it was; after any
\* number of receipts the header's gas_used is the first header's plus the
\* sum of the receipts' gas_used, and its bloom keeps the first header's bits.
C35_ReceiptChangesGasAndBloomOnly ==
    /\ \A receipt \in Receipts :
          LET base_header == local["T1"]
              new_header == apply_receipt_to_header(base_header, receipt)
          IN
          /\ new_header.gas_used = base_header.gas_used + receipt.gas_used
          /\ new_header.bloom \in Blooms
          /\ \A i \in BitPositions :
                Bit(new_header.bloom, i) = 1 <=>
                  (Bit(base_header.bloom, i) = 1 \/ Bit(receipt.bloom, i) = 1)
          /\ \A i \in BitPositions :
                Bit(base_header.bloom, i) = 1 => Bit(new_header.bloom, i) = 1
          /\ DOMAIN new_header = DOMAIN base_header
          /\ \A f \in DOMAIN base_header \ {"gas_used", "bloom"} :
                new_header[f] = base_header[f]
    /\ last.op = "apply_receipt" =>
          /\ last.ret = local["T1"]
          /\ local["T1"].gas_used = call["T1"].tx.gas_used + last.gas_sum
          /\ \A i \in BitPositions :
                Bit(call["T1"].tx.bloom, i) = 1 => Bit(local["T1"].bloom, i) = 1
          /\ \A f \in DOMAIN local["T1"] \ {"gas_used", "bloom"} :
                local["T1"][f] = call["T1"].tx[f]

\* two receipts or more were applied to a header that had gas used and a
\* bloom bit set: the last one used gas and set a bit the header lacked,
\* and the header keeps the bit it had
C35_Witness ==
    /\ last.op = "apply_receipt" /\ last.count = 2
    /\ call["T1"].tx.gas_used > 0 /\ call["T1"].tx.bloom = 1
    /\ last.receipt.gas_used > 0 /\ last.receipt.bloom = 2
    /\ last.base_header.bloom = 1
    /\ last.gas_sum > last.receipt.gas_used
    /\ local["T1"].bloom = 3

====
